---- MODULE Spec2Model ----
(***************************************************************************)
(* XIPFS, the execute-in-place file system of RIOT (sys/fs/xipfs).         *)
(*                                                                         *)
(* The NVM of the mount point is a function from flash page numbers to     *)
(* pages.  A page is a tuple of FLASHPAGE_SIZE cells; one cell is the      *)
(* addressable unit of the model.  The first sizeof(xipfs_file_t) cells of *)
(* a page hold, when the page starts a file, the members of xipfs_file_t   *)
(* in declaration order (next, path, reserved, size, exec); the remaining  *)
(* cells are the payload buf[].  The path member is kept as the byte       *)
(* string stored in flash (ASCII codes, trailing NULs stripped, the empty  *)
(* tuple being the erased member), the size member as the function from    *)
(* slot index to value restricted to its non-erased slots.  The pages that *)
(* follow the first page of a file hold payload in all their cells, so a   *)
(* payload byte written there overlays the member stored at that offset.   *)
(* Addresses are cell numbers; pointers are addresses; NULL is 0.          *)
(***************************************************************************)
EXTENDS Integers, Sequences, FiniteSets, TLC

(***************************************************************************)
(* Bounds of the model                                                     *)
(***************************************************************************)
\* pages handed to XIPFS_NEW_PARTITION for the mount point
NbPage == 3
\* flash pages of the firmware image that precede the partition
FirmwarePages == 1
\* number of operations the application issues
MaxSteps == 4
\* number of operations the application that writes files issues
MaxStepsData == 6
\* number of operations the application that keeps files open issues
MaxStepsHandles == 4
\* number of operations the application that runs programs issues
MaxStepsExec == 4
\* number of threads that call the driver, and of calls they make in all
NbThreads == 2
MaxStepsThreads == 3
\* number of operations the application that is aborted issues, and of
\* flushes of one operation among which the aborted one is chosen
MaxStepsAbort == 5
MaxFlushes == 2
\* number of operations the application that moves in its files issues
MaxStepsSeek == 5
\* number of operations the application that moves directories issues
MaxStepsRename == 4
\* number of operations the application that is aborted in a removal issues
MaxStepsRemove == 4
\* number of calls the client of the page buffer issues
MaxStepsBuffer == 3
\* number of operations the application that works on directories issues
MaxStepsDirs == 5
\* number of operations the application that gives invalid paths issues
MaxStepsInvalid == 4
\* number of operations the application that renames a directory issues
MaxStepsRenameAll == 5
\* number of operations the application that formats issues
MaxStepsFormat == 6
\* number of operations the application that writes after a removal issues
MaxStepsStale == 6

(***************************************************************************)
(* Target and program constants                                            *)
(***************************************************************************)
CPU_FLASH_BASE == 0
FLASHPAGE_SIZE == 8
FLASHPAGE_NUMOF == FirmwarePages + NbPage
FLASHPAGE_ERASE_STATE == 2^8 - 1
\* unsigned, size_t, uintptr_t and uint32_t are words of 32 bits in the
\* program.  The integers of TLC stop at 2^31 - 1, so the words of the model
\* have 30 bits: every value and every intermediate sum is representable,
\* and the arithmetic wraps around where the arithmetic of the program does.
WORD == 2^30
XIPFS_FLASH_ERASE_STATE == WORD - 1
XIPFS_PATH_MAX == 64
XIPFS_FILESIZE_SLOT_MAX == 86
\* 0xf9d3b6cb, most significant byte first
XIPFS_MAGIC == <<249, 211, 182, 203>>
VFS_MAX_OPEN_FILES == 2
NULL == 0

\* members of xipfs_file_t in declaration order, buf[0] excluded
xipfs_file_t == <<"next", "path", "reserved", "size", "exec">>
sizeof_xipfs_file_t == Len(xipfs_file_t)
offsetof(member) == (CHOOSE i \in 1..Len(xipfs_file_t) : xipfs_file_t[i] = member) - 1

VARIABLES nvm, xipfs_buf, vfs_files, vfs_open_files, vfs_dirp, last, halted, steps,
          xipfs_mutex, thread

vars == <<nvm, xipfs_buf, vfs_files, vfs_open_files, vfs_dirp, last, halted, steps,
          xipfs_mutex, thread>>

(***************************************************************************)
(* C arithmetic                                                            *)
(***************************************************************************)
MinOf(S) == CHOOSE x \in S : \A y \in S : x <= y
\* the value of x as an unsigned word, and as a signed one (int, off_t)
U32(x) == x % WORD
Int32(x) == IF U32(x) >= WORD \div 2 THEN U32(x) - WORD ELSE U32(x)
CDiv(a, b) == IF a >= 0 THEN a \div b ELSE -((-a) \div b)

RECURSIVE BitAnd(_, _)
BitAnd(a, b) ==
    IF a = 0 \/ b = 0 THEN 0
    ELSE (a % 2) * (b % 2) + 2 * BitAnd(a \div 2, b \div 2)

\* a local variable of the program: the operand G is applied to the value of
\* v, which is computed once
Bind(v, G(_)) == CHOOSE r \in {G(x) : x \in {v}} : TRUE

(***************************************************************************)
(* Cells and pages                                                         *)
(***************************************************************************)
NoSlots == [i \in {} |-> 0]
Slot(size, i) == IF i \in DOMAIN size THEN size[i] ELSE XIPFS_FLASH_ERASE_STATE
SetSlot(size, i, v) ==
    [j \in (DOMAIN size \cup {i}) \ (IF v = XIPFS_FLASH_ERASE_STATE THEN {i} ELSE {}) |->
        IF j = i THEN v ELSE size[j]]

RECURSIVE StripNul(_)
StripNul(s) ==
    IF Len(s) > 1 /\ s[Len(s)] = 0 THEN StripNul(SubSeq(s, 1, Len(s) - 1)) ELSE s

\* the erased value of the cell at offset o of a page
ErasedCell(o) ==
    IF o = offsetof("path") THEN <<>>
    ELSE IF o = offsetof("size") THEN NoSlots
    ELSE IF o < sizeof_xipfs_file_t THEN XIPFS_FLASH_ERASE_STATE
    ELSE FLASHPAGE_ERASE_STATE

\* the value of the cell at offset o after memset(.., 0, ..)
ZeroCell(o) ==
    IF o = offsetof("path") THEN <<0>>
    ELSE IF o = offsetof("size") THEN [i \in 0..(XIPFS_FILESIZE_SLOT_MAX - 1) |-> 0]
    ELSE 0

ErasedPage == [o \in 1..FLASHPAGE_SIZE |-> ErasedCell(o - 1)]
ZeroPage == [o \in 1..FLASHPAGE_SIZE |-> ZeroCell(o - 1)]

\* the byte seen through a char pointer to the cell at offset o
CellToByte(o, c) ==
    IF o = offsetof("path") THEN (IF c = <<>> THEN FLASHPAGE_ERASE_STATE ELSE c[1])
    ELSE IF o = offsetof("size") THEN Slot(c, 0) % 2^8
    ELSE c % 2^8

\* the cell at offset o after a byte store through a char pointer to it
ByteToCell(o, c, b) ==
    IF o = offsetof("path")
    THEN (IF c = <<>> THEN <<b, FLASHPAGE_ERASE_STATE>> ELSE StripNul(<<b>> \o Tail(c)))
    ELSE IF o = offsetof("size") THEN SetSlot(c, 0, (Slot(c, 0) \div 2^8) * 2^8 + b)
    ELSE IF o < sizeof_xipfs_file_t THEN (c \div 2^8) * 2^8 + b
    ELSE b

flashpage_page(addr) == (addr - CPU_FLASH_BASE) \div FLASHPAGE_SIZE
flashpage_addr(num) == CPU_FLASH_BASE + num * FLASHPAGE_SIZE
PageOffset(addr) == addr % FLASHPAGE_SIZE

\* the xipfs_desc array reserved by XIPFS_NEW_PARTITION, and the mount point
xipfs_desc == flashpage_addr(FirmwarePages)
xipfs_mp == [private_data |-> xipfs_desc, magic |-> XIPFS_MAGIC, nbpage |-> NbPage]
MountPages == flashpage_page(xipfs_desc)..(flashpage_page(xipfs_desc) + NbPage - 1)

\* members of the xipfs_file_t stored at address filp
Member(mem, filp, member) == mem[flashpage_page(filp)][offsetof(member) + 1]

(***************************************************************************)
(* flash.c                                                                 *)
(***************************************************************************)
xipfs_flash_base_addr == CPU_FLASH_BASE
xipfs_flash_end_addr == CPU_FLASH_BASE + FLASHPAGE_NUMOF * FLASHPAGE_SIZE
xipfs_flash_in(addr) == addr >= xipfs_flash_base_addr /\ addr < xipfs_flash_end_addr
xipfs_flash_page_aligned(addr) == addr % FLASHPAGE_SIZE = 0

xipfs_flash_is_erased_page(mem, page) == mem[page] = ErasedPage

\* flashpage_erase always succeeds on the modelled hardware
xipfs_flash_erase_page(mem, page) == [mem EXCEPT ![page] = ErasedPage]

\* NOR programming of one cell: bits can only go from 1 to 0
FlashProgram(o, old, new) ==
    IF old = ErasedCell(o) \/ old = new THEN new
    ELSE IF o = offsetof("path")
    THEN StripNul([i \in 1..(IF Len(old) < Len(new) THEN Len(old) ELSE Len(new)) |->
                      BitAnd(old[i], new[i])])
    ELSE IF o = offsetof("size")
    THEN [i \in DOMAIN old \cup DOMAIN new |-> BitAnd(Slot(old, i), Slot(new, i))]
    ELSE BitAnd(old, new)

\* writes the cells src at dest and following; stops at the first cell whose
\* read-back differs from the value written
xipfs_flash_write_unaligned(mem, dest, src) ==
    LET page == flashpage_page(dest)
        off == PageOffset(dest)
        res(i) == FlashProgram(off + i - 1, mem[page][off + i], src[i])
        bad == {i \in 1..Len(src) : res(i) # src[i]}
        stop == IF bad = {} THEN Len(src) ELSE MinOf(bad)
    IN  [mem |-> [mem EXCEPT ![page] =
                     [o \in 1..FLASHPAGE_SIZE |->
                         IF o > off /\ o <= off + stop THEN res(o - off) ELSE @[o]]],
         ret |-> IF bad = {} THEN 0 ELSE -1]

(***************************************************************************)
(* buffer.c: m is the pair of the NVM and of the static xipfs_buf.  It also *)
(* carries the point where the execution is aborted, if it is: aborts      *)
(* counts the flushes down to the one that is aborted between its erase    *)
(* and its program (0: none is), and crash keeps the NVM as it is at that  *)
(* point (NoCrash until then).                                             *)
(***************************************************************************)
NoCrash == <<>>

BufferKO == [state |-> "XIPFS_BUFFER_KO", buf |-> ZeroPage, page_num |-> 0, page_addr |-> NULL]

\* the machine after a reset: the NVM as it is and the static data as
\* initialized
Rebooted(mem) == [nvm |-> mem, buf |-> BufferKO, aborts |-> 0, crash |-> NoCrash]

xipfs_buffer_page_changed(m, num) == m.buf.page_num # num

xipfs_buffer_need_flush(m) ==
    IF m.buf.state = "XIPFS_BUFFER_KO" THEN FALSE
    ELSE m.buf.buf # m.nvm[flashpage_page(m.buf.page_addr)]

xipfs_buffer_flush(m) ==
    IF ~xipfs_buffer_need_flush(m) THEN m
    ELSE LET erased == xipfs_flash_erase_page(m.nvm, m.buf.page_num)
             w == xipfs_flash_write_unaligned(erased, m.buf.page_addr, m.buf.buf)
         IN  [m EXCEPT !.nvm = w.mem, !.buf = BufferKO,
                       !.aborts = IF @ > 0 THEN @ - 1 ELSE 0,
                       !.crash = IF m.aborts = 1 THEN erased ELSE @]

xipfs_buffer_load(m, num, addr) ==
    [m EXCEPT !.buf = [state |-> "XIPFS_BUFFER_OK", buf |-> m.nvm[flashpage_page(addr)],
                       page_num |-> num, page_addr |-> addr]]

\* a page selection that loads the page touched over the page staged
BufferSelectNoFlush(m, ptr) ==
    LET num == flashpage_page(ptr)
        addr == flashpage_addr(num)
    IN  IF m.buf.state = "XIPFS_BUFFER_KO" THEN xipfs_buffer_load(m, num, addr)
        ELSE IF xipfs_buffer_page_changed(m, num)
        THEN xipfs_buffer_load(m, num, addr)
        ELSE m

\* the page selection done for every byte by xipfs_buffer_read and
\* xipfs_buffer_write
BufferSelect(m, ptr) ==
    LET num == flashpage_page(ptr)
        addr == flashpage_addr(num)
    IN  IF m.buf.state = "XIPFS_BUFFER_KO" THEN xipfs_buffer_load(m, num, addr)
        ELSE IF xipfs_buffer_page_changed(m, num)
        THEN xipfs_buffer_load(xipfs_buffer_flush(m), num, addr)
        ELSE m

\* reads the cell at src; val is the cell found in the buffer
xipfs_buffer_read(m, src) ==
    Bind(BufferSelect(m, src), LAMBDA m1 :
        [m |-> m1, val |-> m1.buf.buf[PageOffset(src) + 1]])

\* writes the cells src at dest and following
RECURSIVE xipfs_buffer_write(_, _, _)
xipfs_buffer_write(m, dest, src) ==
    IF src = <<>> THEN m
    ELSE Bind(BufferSelect(m, dest), LAMBDA m1 :
             xipfs_buffer_write([m1 EXCEPT !.buf.buf[PageOffset(dest) + 1] = Head(src)],
                                dest + 1, Tail(src)))

xipfs_buffer_read_8(m, src) ==
    Bind(xipfs_buffer_read(m, src), LAMBDA r :
        [m |-> r.m, val |-> CellToByte(PageOffset(src), r.val)])

xipfs_buffer_write_8(m, dest, byte) ==
    Bind(BufferSelect(m, dest), LAMBDA m1 :
        xipfs_buffer_write(m1, dest,
            <<ByteToCell(PageOffset(dest), m1.buf.buf[PageOffset(dest) + 1], byte)>>))

(***************************************************************************)
(* file.c                                                                  *)
(***************************************************************************)
\* ".xipfs_infos"
xipfs_infos_file == <<46, 120, 105, 112, 102, 115, 95, 105, 110, 102, 111, 115>>

\* the address of that string literal: it lies in the firmware image, not in
\* the partition, and is not aligned with a flash page
xipfs_infos_ptr == CPU_FLASH_BASE + 1

\* '0'..'9', 'A'..'Z', 'a'..'z', '/', '.', '-', '_'
xipfs_file_path_charset_check(c) ==
    \/ (c >= 48 /\ c <= 57)
    \/ (c >= 65 /\ c <= 90)
    \/ (c >= 97 /\ c <= 122)
    \/ c = 47 \/ c = 46
    \/ c = 45 \/ c = 95

\* the C string read through a pointer to the path member c: the bytes that
\* precede the first NUL
RECURSIVE CString(_)
CString(c) == IF c = <<>> \/ c[1] = 0 THEN <<>> ELSE <<c[1]>> \o CString(Tail(c))

\* the C string seen by the code in a path member (an erased member has no
\* terminator and starts with the erased byte)
PathOf(c) == IF c = <<>> THEN <<FLASHPAGE_ERASE_STATE>> ELSE CString(c)

\* path is a C string given without its terminator
xipfs_file_path_check(path) ==
    IF path = <<>> THEN "XIPFS_EEMPTY"
    ELSE IF \E i \in 1..Len(path) : i <= XIPFS_PATH_MAX /\ ~xipfs_file_path_charset_check(path[i])
    THEN "XIPFS_EINVAL"
    ELSE IF Len(path) > XIPFS_PATH_MAX THEN "XIPFS_ENULTER"
    ELSE "XIPFS_OK"


\* the value of xipfs_errno left by the check, XIPFS_OK when it returns 0
xipfs_file_filp_check(mem, filp) ==
    IF filp = NULL THEN "XIPFS_ENULLF"
    ELSE IF filp = xipfs_infos_ptr
    THEN \* the characters ".xip" read as the member next
         "XIPFS_EALIGN"
    ELSE Bind(mem[flashpage_page(filp)], LAMBDA file :
         LET next == file[offsetof("next") + 1]
             reserved == file[offsetof("reserved") + 1]
             exec == file[offsetof("exec") + 1]
         IN  IF next = NULL THEN "XIPFS_ENULLF"
             ELSE IF next # filp /\ ~xipfs_flash_page_aligned(next) THEN "XIPFS_EALIGN"
             ELSE IF next # filp /\ ~xipfs_flash_in(next) THEN "XIPFS_EOUTNVM"
             ELSE IF next # filp /\ filp >= next THEN "XIPFS_ELINK"
             ELSE IF next # filp /\ U32(filp + reserved) # next THEN "XIPFS_ELINK"
             ELSE Bind(xipfs_file_path_check(PathOf(file[offsetof("path") + 1])),
                       LAMBDA errno :
                           IF errno # "XIPFS_OK" THEN errno
                           ELSE IF exec # 0 /\ exec # 1 THEN "XIPFS_EPERM"
                           ELSE "XIPFS_OK"))

\* off_t is a signed 32-bit integer; -1 stands for the error return
xipfs_file_get_max_pos(mem, filp) ==
    IF xipfs_file_filp_check(mem, filp) # "XIPFS_OK" THEN -1
    ELSE Int32(Int32(Member(mem, filp, "reserved")) - sizeof_xipfs_file_t)

xipfs_file_get_reserved(mem, filp) ==
    IF xipfs_file_filp_check(mem, filp) # "XIPFS_OK" THEN -1
    ELSE Int32(Member(mem, filp, "reserved"))

RECURSIVE FileErasePages(_, _, _, _)
FileErasePages(mem, start, i, number) ==
    IF i >= number THEN mem
    ELSE FileErasePages(xipfs_flash_erase_page(mem, start + i), start, i + 1, number)

xipfs_file_erase(mem, filp) ==
    Bind(xipfs_file_filp_check(mem, filp), LAMBDA errno :
        IF errno # "XIPFS_OK" THEN [mem |-> mem, ret |-> -1, errno |-> errno]
        ELSE [mem |-> FileErasePages(mem, flashpage_page(filp), 0,
                                     Member(mem, filp, "reserved") \div FLASHPAGE_SIZE),
              ret |-> 0, errno |-> "XIPFS_OK"])

\* the size slots are read from flash; only the last slot goes through the
\* page buffer
xipfs_file_get_size_(m, filp) ==
    Bind(Member(m.nvm, filp, "size"), LAMBDA size :
    Bind({i \in 1..(XIPFS_FILESIZE_SLOT_MAX - 1) : Slot(size, i) = XIPFS_FLASH_ERASE_STATE},
         LAMBDA erased :
        IF Slot(size, 0) = XIPFS_FLASH_ERASE_STATE THEN [m |-> m, size |-> 0]
        ELSE IF erased # {} THEN [m |-> m, size |-> Int32(Slot(size, MinOf(erased) - 1))]
        ELSE Bind(xipfs_buffer_read(m, filp + offsetof("size")), LAMBDA r :
                 [m |-> r.m, size |-> Int32(Slot(r.val, XIPFS_FILESIZE_SLOT_MAX - 1))])))

xipfs_file_get_size(m, filp) ==
    IF xipfs_file_filp_check(m.nvm, filp) # "XIPFS_OK" THEN [m |-> m, size |-> -1]
    ELSE xipfs_file_get_size_(m, filp)

\* the slot chosen is the first slot after slot 0 that is NOT erased, modulo
\* the number of slots
xipfs_file_set_size(m, filp, size) ==
    IF xipfs_file_filp_check(m.nvm, filp) # "XIPFS_OK" THEN [m |-> m, ret |-> -1]
    ELSE Bind({i \in 1..(XIPFS_FILESIZE_SLOT_MAX - 1) :
                  Slot(Member(m.nvm, filp, "size"), i) # XIPFS_FLASH_ERASE_STATE},
              LAMBDA written :
         Bind(BufferSelect(m, filp + offsetof("size")), LAMBDA m1 :
         LET i == (IF written = {} THEN XIPFS_FILESIZE_SLOT_MAX ELSE MinOf(written))
                      % XIPFS_FILESIZE_SLOT_MAX
             dest == filp + offsetof("size")
             m2 == xipfs_buffer_write(m1, dest,
                       <<SetSlot(m1.buf.buf[PageOffset(dest) + 1], i, U32(size))>>)
         IN  [m |-> xipfs_buffer_flush(m2), ret |-> 0]))

\* xipfs_buffer_write(filp->path, to_path, strlen(to_path) + 1)
xipfs_file_rename(m, filp, to_path) ==
    IF xipfs_file_filp_check(m.nvm, filp) # "XIPFS_OK" THEN [m |-> m, ret |-> -1]
    ELSE IF xipfs_file_path_check(to_path) # "XIPFS_OK" THEN [m |-> m, ret |-> -1]
    ELSE Bind(BufferSelect(m, filp + offsetof("path")), LAMBDA m1 :
         LET dest == filp + offsetof("path")
             old == m1.buf.buf[PageOffset(dest) + 1]
             len == Len(to_path) + 1
             new == StripNul(to_path \o <<0>> \o
                        (IF Len(old) > len THEN SubSeq(old, len + 1, Len(old)) ELSE <<>>))
         IN  [m |-> xipfs_buffer_flush(xipfs_buffer_write(m1, dest, <<new>>)), ret |-> 0])

\* f is the VFS file structure: f.ptr is private_data.ptr, f.pos the offset
xipfs_file_read_8(m, f) ==
    Bind(xipfs_file_get_max_pos(m.nvm, f.ptr), LAMBDA max_pos :
        IF max_pos < 0 THEN [m |-> m, ret |-> -1, byte |-> 0]
        ELSE IF f.pos < 0 \/ f.pos > max_pos THEN [m |-> m, ret |-> -1, byte |-> 0]
        ELSE Bind(xipfs_buffer_read_8(m, f.ptr + sizeof_xipfs_file_t + f.pos), LAMBDA r :
                 [m |-> r.m, ret |-> 0, byte |-> r.val]))

xipfs_file_write_8(m, f, byte) ==
    Bind(xipfs_file_get_max_pos(m.nvm, f.ptr), LAMBDA max_pos :
        IF max_pos < 0 THEN [m |-> m, ret |-> -1]
        ELSE IF f.pos < 0 \/ f.pos > max_pos THEN [m |-> m, ret |-> -1]
        ELSE [m |-> xipfs_buffer_write_8(m, f.ptr + sizeof_xipfs_file_t + f.pos, byte),
              ret |-> 0])

(***************************************************************************)
(* fs.c: a pointer result p comes with the value errno of xipfs_errno      *)
(***************************************************************************)
ROUND(x, y) == U32(x + y - 1) - (U32(x + y - 1) % y)

xipfs_fs_head(mem) ==
    LET headp == xipfs_mp.private_data
    IN  IF Member(mem, headp, "next") = XIPFS_FLASH_ERASE_STATE
        THEN [p |-> NULL, errno |-> "XIPFS_OK"]
        ELSE Bind(xipfs_file_filp_check(mem, headp), LAMBDA errno :
                 IF errno # "XIPFS_OK" THEN [p |-> NULL, errno |-> errno]
                 ELSE [p |-> headp, errno |-> "XIPFS_OK"])

\* the end of xipfs_fs_next: the file at filp->next, if there is one
NextAt(mem, nextp) ==
    IF Member(mem, nextp, "next") = XIPFS_FLASH_ERASE_STATE
    THEN [p |-> NULL, errno |-> "XIPFS_OK"]
    ELSE Bind(xipfs_file_filp_check(mem, nextp), LAMBDA errno :
             IF errno # "XIPFS_OK" THEN [p |-> NULL, errno |-> errno]
             ELSE [p |-> nextp, errno |-> "XIPFS_OK"])

xipfs_fs_next(mem, filp) ==
    Bind(xipfs_file_filp_check(mem, filp), LAMBDA errno :
        IF errno # "XIPFS_OK" THEN [p |-> NULL, errno |-> errno]
        ELSE IF Member(mem, filp, "next") = filp THEN [p |-> NULL, errno |-> "XIPFS_OK"]
        ELSE NextAt(mem, Member(mem, filp, "next")))

\* the do-while loop of xipfs_fs_tail, entered with filp
RECURSIVE TailFrom(_, _)
TailFrom(mem, filp) ==
    Bind(xipfs_fs_next(mem, filp), LAMBDA n :
        IF n.p # NULL THEN TailFrom(mem, n.p)
        ELSE IF n.errno # "XIPFS_OK" THEN [p |-> NULL, errno |-> n.errno]
        ELSE [p |-> filp, errno |-> "XIPFS_OK"])

xipfs_fs_tail(mem) ==
    Bind(xipfs_fs_head(mem), LAMBDA h :
        IF h.p = NULL THEN h ELSE TailFrom(mem, h.p))

xipfs_fs_tail_next(mem) ==
    Bind(xipfs_fs_tail(mem), LAMBDA t :
        IF t.p = NULL
        THEN (IF t.errno # "XIPFS_OK" THEN t
              ELSE [p |-> xipfs_mp.private_data, errno |-> "XIPFS_OK"])
        ELSE IF Member(mem, t.p, "next") = t.p THEN [p |-> NULL, errno |-> "XIPFS_EFULL"]
        ELSE [p |-> Member(mem, t.p, "next"), errno |-> "XIPFS_OK"])

xipfs_fs_get_page_number == xipfs_mp.nbpage

\* used is an int: the pointer arithmetic wraps on 32 bits
xipfs_fs_free_pages(mem) ==
    Bind(xipfs_fs_head(mem), LAMBDA h :
        IF h.p = NULL
        THEN (IF h.errno # "XIPFS_OK" THEN [n |-> -1, errno |-> h.errno]
              ELSE [n |-> xipfs_mp.nbpage, errno |-> "XIPFS_OK"])
        ELSE Bind(xipfs_fs_tail(mem), LAMBDA t :
                 IF t.p = NULL THEN [n |-> -1, errno |-> t.errno]
                 ELSE LET used == CDiv(Int32(t.p + Member(mem, t.p, "reserved") - h.p),
                                       FLASHPAGE_SIZE)
                      IN  [n |-> xipfs_mp.nbpage - used, errno |-> "XIPFS_OK"]))

\* the header written by xipfs_fs_new_file: memset to the erased state, then
\* strncpy of the path, reserved, next and exec
NewFileHeader(path, reserved, next, exec) ==
    <<next,
      IF Len(path) > XIPFS_PATH_MAX - 1 THEN SubSeq(path, 1, XIPFS_PATH_MAX - 1) ELSE path,
      reserved, NoSlots, exec>>

xipfs_fs_new_file(m, path, size, exec) ==
    LET fail(e) == [m |-> m, p |-> NULL, errno |-> e]
    IN  Bind(xipfs_file_path_check(path), LAMBDA errno :
        IF errno # "XIPFS_OK" THEN fail(errno)
        ELSE IF exec # 0 /\ exec # 1 THEN fail("XIPFS_EPERM")
        ELSE Bind(xipfs_fs_tail_next(m.nvm), LAMBDA filp :
        IF filp.p = NULL THEN fail(filp.errno)
        ELSE Bind(xipfs_fs_free_pages(m.nvm), LAMBDA free_pages :
        LET reserved == IF size > 0 THEN ROUND(size, FLASHPAGE_SIZE) ELSE FLASHPAGE_SIZE
            reserved_pages == reserved \div FLASHPAGE_SIZE
            next == IF reserved_pages < free_pages.n THEN filp.p + reserved ELSE filp.p
        IN  IF free_pages.n < 0 THEN fail(free_pages.errno)
            ELSE IF reserved_pages > free_pages.n THEN fail("XIPFS_ENOSPACE")
            ELSE [m |-> xipfs_buffer_flush(
                            xipfs_buffer_write(m, filp.p,
                                NewFileHeader(path, reserved, next, exec))),
                  p |-> filp.p, errno |-> "XIPFS_OK"])))

\* the for loop of xipfs_fs_remove that moves the pages after the first one
RECURSIVE MovePages(_, _, _, _, _)
MovePages(mem, dst, src, i, pagenum) ==
    IF i >= pagenum THEN [mem |-> mem, ret |-> 0, dst |-> dst, src |-> src]
    ELSE IF xipfs_flash_is_erased_page(mem, flashpage_page(src))
    THEN MovePages(mem, dst + FLASHPAGE_SIZE, src + FLASHPAGE_SIZE, i + 1, pagenum)
    ELSE Bind(xipfs_flash_write_unaligned(mem, dst, mem[flashpage_page(src)]), LAMBDA w :
             IF w.ret < 0 THEN [mem |-> w.mem, ret |-> -1, dst |-> dst, src |-> src]
             ELSE MovePages(xipfs_flash_erase_page(w.mem, flashpage_page(src)),
                            dst + FLASHPAGE_SIZE, src + FLASHPAGE_SIZE, i + 1, pagenum))

\* the while loop of xipfs_fs_remove: next is the file to move to dst
RECURSIVE Consolidate(_, _, _)
Consolidate(mem, dst, next) ==
    IF next = NULL THEN [mem |-> mem, ret |-> 0]
    ELSE Bind(xipfs_fs_next(mem, next), LAMBDA n :
         IF n.p = NULL /\ n.errno # "XIPFS_OK" THEN [mem |-> mem, ret |-> -1]
         ELSE
         LET src == next
             size == U32(Member(mem, src, "next") - src)
             page == mem[flashpage_page(src)]
             file == [i \in 1..sizeof_xipfs_file_t |->
                         IF i = offsetof("next") + 1 THEN U32(dst + size) ELSE page[i]]
         IN  Bind(xipfs_flash_write_unaligned(mem, dst, file), LAMBDA w1 :
             IF w1.ret < 0 THEN [mem |-> w1.mem, ret |-> -1]
             ELSE Bind(xipfs_flash_write_unaligned(w1.mem, dst + sizeof_xipfs_file_t,
                           SubSeq(page, sizeof_xipfs_file_t + 1, FLASHPAGE_SIZE)),
                       LAMBDA w2 :
             IF w2.ret < 0 THEN [mem |-> w2.mem, ret |-> -1]
             ELSE Bind(MovePages(xipfs_flash_erase_page(w2.mem, flashpage_page(src)),
                                 dst + FLASHPAGE_SIZE, src + FLASHPAGE_SIZE, 1,
                                 size \div FLASHPAGE_SIZE),
                       LAMBDA mv :
             IF mv.ret < 0 THEN [mem |-> mv.mem, ret |-> -1]
             ELSE Consolidate(mv.mem, mv.dst, n.p)))))

xipfs_fs_remove(mem, dst) ==
    Bind(xipfs_fs_next(mem, dst), LAMBDA n :
        IF n.p = NULL /\ n.errno # "XIPFS_OK" THEN [mem |-> mem, ret |-> -1]
        ELSE Bind(xipfs_file_erase(mem, dst), LAMBDA e :
                 IF e.ret < 0 THEN [mem |-> mem, ret |-> -1]
                 ELSE Consolidate(e.mem, dst, n.p)))

\* The NVM after each page erase and each page program of xipfs_fs_remove,
\* in order: the erases of xipfs_file_erase, then for every file moved the
\* program of its header, the program of the rest of its first page, the
\* erase of its old first page, and a program and an erase for each of its
\* other pages that is not erased.
RECURSIVE EraseTrace(_, _, _, _)
EraseTrace(mem, start, i, number) ==
    IF i >= number THEN <<>>
    ELSE Bind(xipfs_flash_erase_page(mem, start + i), LAMBDA e :
             <<e>> \o EraseTrace(e, start, i + 1, number))

RECURSIVE MoveTrace(_, _, _, _, _)
MoveTrace(mem, dst, src, i, pagenum) ==
    IF i >= pagenum THEN <<>>
    ELSE IF xipfs_flash_is_erased_page(mem, flashpage_page(src))
    THEN MoveTrace(mem, dst + FLASHPAGE_SIZE, src + FLASHPAGE_SIZE, i + 1, pagenum)
    ELSE Bind(xipfs_flash_write_unaligned(mem, dst, mem[flashpage_page(src)]), LAMBDA w :
             IF w.ret < 0 THEN <<w.mem>>
             ELSE Bind(xipfs_flash_erase_page(w.mem, flashpage_page(src)), LAMBDA e :
                      <<w.mem, e>> \o MoveTrace(e, dst + FLASHPAGE_SIZE, src + FLASHPAGE_SIZE,
                                                i + 1, pagenum)))

RECURSIVE ConsolidateTrace(_, _, _)
ConsolidateTrace(mem, dst, next) ==
    IF next = NULL THEN <<>>
    ELSE Bind(xipfs_fs_next(mem, next), LAMBDA n :
         IF n.p = NULL /\ n.errno # "XIPFS_OK" THEN <<>>
         ELSE
         LET src == next
             size == U32(Member(mem, src, "next") - src)
             page == mem[flashpage_page(src)]
             file == [i \in 1..sizeof_xipfs_file_t |->
                         IF i = offsetof("next") + 1 THEN U32(dst + size) ELSE page[i]]
         IN  Bind(xipfs_flash_write_unaligned(mem, dst, file), LAMBDA w1 :
             IF w1.ret < 0 THEN <<w1.mem>>
             ELSE Bind(xipfs_flash_write_unaligned(w1.mem, dst + sizeof_xipfs_file_t,
                           SubSeq(page, sizeof_xipfs_file_t + 1, FLASHPAGE_SIZE)),
                       LAMBDA w2 :
             IF w2.ret < 0 THEN <<w1.mem, w2.mem>>
             ELSE Bind(xipfs_flash_erase_page(w2.mem, flashpage_page(src)), LAMBDA e :
                  Bind(MovePages(e, dst + FLASHPAGE_SIZE, src + FLASHPAGE_SIZE, 1,
                                 size \div FLASHPAGE_SIZE),
                       LAMBDA mv :
                  <<w1.mem, w2.mem, e>>
                      \o MoveTrace(e, dst + FLASHPAGE_SIZE, src + FLASHPAGE_SIZE, 1,
                                   size \div FLASHPAGE_SIZE)
                      \o (IF mv.ret < 0 THEN <<>>
                          ELSE ConsolidateTrace(mv.mem, mv.dst, n.p)))))))

RemoveTrace(mem, dst) ==
    Bind(xipfs_fs_next(mem, dst), LAMBDA n :
        IF n.p = NULL /\ n.errno # "XIPFS_OK" THEN <<>>
        ELSE Bind(xipfs_file_erase(mem, dst), LAMBDA e :
                 IF e.ret < 0 THEN <<>>
                 ELSE EraseTrace(mem, flashpage_page(dst), 0,
                                 Member(mem, dst, "reserved") \div FLASHPAGE_SIZE)
                          \o ConsolidateTrace(e.mem, dst, n.p)))

RECURSIVE FormatPages(_, _, _, _)
FormatPages(mem, start_page, i, end_page) ==
    IF start_page + i >= end_page THEN mem
    ELSE FormatPages(xipfs_flash_erase_page(mem, start_page + i), start_page, i + 1, end_page)

xipfs_fs_format(mem) ==
    LET start_addr == xipfs_mp.private_data
        end_addr == start_addr + xipfs_mp.nbpage * FLASHPAGE_SIZE
    IN  FormatPages(mem, flashpage_page(start_addr), 0, flashpage_page(end_addr))


(***************************************************************************)
(* path.c: a C string is the tuple of its characters, terminator excluded  *)
(***************************************************************************)
XIPFS_PATH_UNDEFINED == 0
XIPFS_PATH_CREATABLE == 1
XIPFS_PATH_EXISTS_AS_FILE == 2
XIPFS_PATH_EXISTS_AS_EMPTY_DIR == 3
XIPFS_PATH_EXISTS_AS_NONEMPTY_DIR == 4
XIPFS_PATH_INVALID_BECAUSE_NOT_DIRS == 5
XIPFS_PATH_INVALID_BECAUSE_NOT_FOUND == 6

\* s[i] in C: the terminator is read at and after the end of the string
Ch(s, i) == IF i < Len(s) THEN s[i + 1] ELSE 0

\* strncmp(s1, s2, n) == 0
StrnEq(s1, s2, n) ==
    \A i \in 0..(n - 1) :
        \/ Ch(s1, i) = Ch(s2, i)
        \/ \E k \in 0..(i - 1) : Ch(s1, k) = 0 /\ Ch(s2, k) = 0

\* strcmp(s1, s2) == 0
StrEq(s1, s2) == s1 = s2

compare_paths(path_1, path_2) ==
    LET stop == {i \in 0..(XIPFS_PATH_MAX - 1) :
                    Ch(path_1, i) # Ch(path_2, i) \/ Ch(path_1, i) = 0 \/ Ch(path_2, i) = 0}
    IN  IF stop = {} THEN XIPFS_PATH_MAX ELSE MinOf(stop)

exists_as_file(path_1, path_2, i) ==
    /\ i > 0
    /\ Ch(path_1, i - 1) # 47 /\ Ch(path_1, i - 1) # 0 /\ Ch(path_1, i) = 0
    /\ Ch(path_2, i - 1) # 47 /\ Ch(path_2, i - 1) # 0 /\ Ch(path_2, i) = 0

exists_as_empty_dir(path_1, path_2, i) ==
    \/ /\ i > 0
       /\ Ch(path_1, i - 1) = 47 /\ Ch(path_1, i) = 0
       /\ Ch(path_2, i - 1) = 47 /\ Ch(path_2, i) = 0
    \/ /\ i > 0 /\ i < XIPFS_PATH_MAX - 1
       /\ Ch(path_1, i - 1) # 47 /\ Ch(path_1, i - 1) # 0
       /\ Ch(path_1, i) = 47 /\ Ch(path_1, i + 1) = 0
       /\ Ch(path_2, i - 1) # 47 /\ Ch(path_2, i - 1) # 0 /\ Ch(path_2, i) = 0

exists_as_nonempty_dir(path_1, path_2, i) ==
    \/ /\ i > 0
       /\ Ch(path_1, i - 1) = 47 /\ Ch(path_1, i) # 47 /\ Ch(path_1, i) # 0
       /\ Ch(path_2, i - 1) = 47 /\ Ch(path_2, i) = 0
    \/ /\ i > 0 /\ i < XIPFS_PATH_MAX - 1
       /\ Ch(path_1, i - 1) # 47 /\ Ch(path_1, i - 1) # 0
       /\ Ch(path_1, i) = 47 /\ Ch(path_1, i + 1) # 47 /\ Ch(path_1, i + 1) # 0
       /\ Ch(path_2, i - 1) # 47 /\ Ch(path_2, i - 1) # 0 /\ Ch(path_2, i) = 0

invalid_because_not_dirs(path_1, path_2, i) ==
    /\ i > 0 /\ i < XIPFS_PATH_MAX - 1
    /\ Ch(path_1, i - 1) # 47 /\ Ch(path_1, i - 1) # 0 /\ Ch(path_1, i) = 0
    /\ Ch(path_2, i - 1) # 47 /\ Ch(path_2, i - 1) # 0
    /\ Ch(path_2, i) = 47 /\ Ch(path_2, i + 1) # 47 /\ Ch(path_2, i + 1) # 0

creatable(path_1, dirname_2, dirname_2_len) == StrnEq(path_1, dirname_2, dirname_2_len)

\* the xipfs_path_t built by xipfs_path_init, xipfs_path_basename and
\* xipfs_path_dirname
xipfs_path_init(path) ==
    LET root == path = <<47>>
        slashes == {i \in 0..(Len(path) - 1) : Ch(path, i) = 47 /\ Ch(path, i + 1) # 0}
        last_slash == IF root \/ slashes = {} THEN 0
                      ELSE CHOOSE i \in slashes : \A k \in slashes : k <= i
        ends == {i \in (last_slash + 1)..Len(path) : Ch(path, i) = 47 \/ Ch(path, i) = 0}
    IN  [path |-> path,
         dirname |-> IF root THEN <<47>> ELSE SubSeq(path, 1, last_slash + 1),
         basename |-> IF root THEN <<47>> ELSE SubSeq(path, last_slash + 2, MinOf(ends)),
         len |-> Len(path), last_slash |-> last_slash, parent |-> 0,
         witness |-> NULL, info |-> XIPFS_PATH_UNDEFINED, ret |-> "OK"]

\* the body of the do-while loop of xipfs_path_new_n for the file filp,
\* whose path is fpath
PathVisit(x, filp, fpath) ==
    Bind(IF StrnEq(x.path, fpath, x.last_slash) THEN [x EXCEPT !.parent = @ + 1] ELSE x,
         LAMBDA x1 :
    Bind(compare_paths(fpath, x1.path), LAMBDA i :
    LET slashed == IF Ch(x1.path, x1.len - 1) # 47
                   THEN [x1 EXCEPT !.path = @ \o <<47>>, !.len = @ + 1] ELSE x1
        toolong == Ch(x1.path, x1.len - 1) # 47 /\ x1.len = XIPFS_PATH_MAX - 1
    IN  IF x1.info # XIPFS_PATH_UNDEFINED /\ x1.info # XIPFS_PATH_CREATABLE THEN x1
        ELSE IF i = XIPFS_PATH_MAX THEN [x1 EXCEPT !.ret = "-1"]
        ELSE IF exists_as_file(fpath, x1.path, i)
        THEN [x1 EXCEPT !.info = XIPFS_PATH_EXISTS_AS_FILE, !.witness = filp]
        ELSE IF exists_as_empty_dir(fpath, x1.path, i)
        THEN (IF toolong THEN [x1 EXCEPT !.ret = "-ENAMETOOLONG"]
              ELSE [slashed EXCEPT !.info = XIPFS_PATH_EXISTS_AS_EMPTY_DIR, !.witness = filp])
        ELSE IF exists_as_nonempty_dir(fpath, x1.path, i)
        THEN (IF toolong THEN [x1 EXCEPT !.ret = "-ENAMETOOLONG"]
              ELSE [slashed EXCEPT !.info = XIPFS_PATH_EXISTS_AS_NONEMPTY_DIR, !.witness = filp])
        ELSE IF invalid_because_not_dirs(fpath, x1.path, i)
        THEN [x1 EXCEPT !.info = XIPFS_PATH_INVALID_BECAUSE_NOT_DIRS, !.witness = filp]
        ELSE IF creatable(fpath, x1.path, x1.last_slash + 1)
        THEN [x1 EXCEPT !.info = XIPFS_PATH_CREATABLE, !.witness = filp]
        ELSE x1))

\* the do-while loop of xipfs_path_new_n; the value of xipfs_errno that ends
\* it is not looked at
RECURSIVE PathLoop(_, _, _)
PathLoop(mem, x, filp) ==
    Bind(PathVisit(x, filp, PathOf(Member(mem, filp, "path"))), LAMBDA x1 :
        IF x1.ret # "OK" THEN x1
        ELSE Bind(xipfs_fs_next(mem, filp), LAMBDA n :
                 IF n.p # NULL THEN PathLoop(mem, x1, n.p) ELSE x1))

xipfs_path_new(mem, path) ==
    IF path = <<>> \/ path[1] # 47
    THEN [path |-> path, dirname |-> <<>>, basename |-> <<>>, len |-> 0,
          last_slash |-> 0, parent |-> 0, witness |-> NULL,
          info |-> XIPFS_PATH_UNDEFINED, ret |-> "-1"]
    ELSE Bind(xipfs_path_init(path), LAMBDA x :
         Bind(xipfs_fs_head(mem), LAMBDA h :
         Bind(IF h.p # NULL THEN PathLoop(mem, x, h.p)
              ELSE IF h.errno # "XIPFS_OK" THEN [x EXCEPT !.ret = "-1"]
              ELSE IF creatable(<<47>>, x.path, IF x.last_slash > 0 THEN x.last_slash - 1 ELSE 0)
              THEN [x EXCEPT !.info = XIPFS_PATH_CREATABLE, !.witness = NULL]
              ELSE x,
              LAMBDA seen :
                  IF seen.ret = "OK" /\ seen.info = XIPFS_PATH_UNDEFINED
                  THEN [seen EXCEPT !.info = XIPFS_PATH_INVALID_BECAUSE_NOT_FOUND,
                                    !.witness = NULL]
                  ELSE seen)))

(***************************************************************************)
(* driver.c.  D is the state the driver works on: the NVM, the page        *)
(* buffer, the VFS file structures (private_data.ptr and pos), the table   *)
(* vfs_open_files, and ub, which tells whether the operation dereferenced  *)
(* an empty slot of the table ("none", "benign" or "fault").  An operation *)
(* returns the new D, the POSIX result ret ("OK" or the negated errno),    *)
(* the count n it returns when it succeeds and the bytes it delivers.      *)
(* The way a dereference of an empty slot ends (u) is an input.            *)
(***************************************************************************)
Handles == 1..VFS_MAX_OPEN_FILES
M(D) == [nvm |-> D.nvm, buf |-> D.buf, aborts |-> D.aborts, crash |-> D.crash]
WithM(D, m) == [D EXCEPT !.nvm = m.nvm, !.buf = m.buf, !.aborts = m.aborts, !.crash = m.crash]
R(D, ret, n, data) == [d |-> D, ret |-> ret, n |-> n, data |-> data]
Err(D, ret) == R(D, ret, 0, <<>>)
Ok(D) == R(D, "OK", 0, <<>>)
\* the way a dereference of an empty slot ends in the operation at hand
u_of(D) == D.u

basename(path) ==
    IF Ch(path, 1) = 0 THEN <<47>>
    ELSE LET end == IF path[Len(path)] = 47 THEN Len(path) - 1 ELSE Len(path)
             slashes == {i \in 2..end : path[i] = 47}
             ptr == IF slashes = {} THEN 1
                    ELSE CHOOSE i \in slashes : \A k \in slashes : k <= i
         IN  SubSeq(path, ptr + 1, end)

xipfs_mp_check ==
    IF xipfs_mp.magic # XIPFS_MAGIC THEN "-EINVAL"
    ELSE IF xipfs_mp.nbpage = 0 THEN "-EINVAL"
    ELSE IF xipfs_mp.nbpage > FLASHPAGE_NUMOF THEN "-EFAULT"
    ELSE "OK"

vfs_open_files_track(D, h) ==
    LET empty == {i \in 1..VFS_MAX_OPEN_FILES : D.tab[i] = NULL}
    IN  IF empty = {} THEN [d |-> D, ret |-> -1]
        ELSE [d |-> [D EXCEPT !.tab[MinOf(empty)] = h], ret |-> 0]

vfs_open_files_untrack(D, h) ==
    LET found == {i \in 1..VFS_MAX_OPEN_FILES : D.tab[i] = h}
    IN  IF found = {} THEN [d |-> D, ret |-> -1]
        ELSE [d |-> [D EXCEPT !.tab[MinOf(found)] = NULL],
              ret |-> IF Cardinality(found) > 1 THEN -1 ELSE 0]

vfs_open_files_is_tracked(D, h) ==
    Cardinality({i \in 1..VFS_MAX_OPEN_FILES : D.tab[i] = h}) = 1

\* the loop of vfs_open_files_untrack_all from slot i on; an empty slot is
\* dereferenced like any other
RECURSIVE UntrackAllFrom(_, _, _)
UntrackAllFrom(D, i, u) ==
    LET start == xipfs_mp.private_data
        end == start + xipfs_mp.nbpage * FLASHPAGE_SIZE
        curr == D.files[D.tab[i]].ptr
    IN  IF i > VFS_MAX_OPEN_FILES THEN D
        ELSE IF D.tab[i] = NULL
        THEN (IF u = "fault" THEN [D EXCEPT !.ub = "fault"]
              ELSE UntrackAllFrom([D EXCEPT !.ub = "benign"], i + 1, u))
        ELSE IF curr # xipfs_infos_ptr /\ curr >= start /\ curr < end
        THEN UntrackAllFrom([D EXCEPT !.tab[i] = NULL], i + 1, u)
        ELSE UntrackAllFrom(D, i + 1, u)

vfs_open_files_untrack_all(D, u) == UntrackAllFrom(D, 1, u)

\* the loop of vfs_open_files_update from slot i on
RECURSIVE UpdateFrom(_, _, _, _, _)
UpdateFrom(D, i, removed, reserved, u) ==
    LET start == xipfs_mp.private_data
        end == start + xipfs_mp.nbpage * FLASHPAGE_SIZE
        h == D.tab[i]
        curr == D.files[h].ptr
    IN  IF i > VFS_MAX_OPEN_FILES THEN D
        ELSE IF D.tab[i] = NULL
        THEN (IF u = "fault" THEN [D EXCEPT !.ub = "fault"]
              ELSE UpdateFrom([D EXCEPT !.ub = "benign"], i + 1, removed, reserved, u))
        ELSE IF curr # xipfs_infos_ptr /\ curr >= start /\ curr < end /\ curr > removed
        THEN UpdateFrom([D EXCEPT !.files[h].ptr = U32(curr - reserved)],
                        i + 1, removed, reserved, u)
        ELSE IF curr # xipfs_infos_ptr /\ curr >= start /\ curr < end /\ curr = removed
        THEN UpdateFrom([D EXCEPT !.tab[i] = NULL], i + 1, removed, reserved, u)
        ELSE UpdateFrom(D, i + 1, removed, reserved, u)

vfs_open_files_update(D, removed, reserved, u) == UpdateFrom(D, 1, removed, reserved, u)

sync_remove_file(D, xipfs_filp, u) ==
    Bind(xipfs_buffer_flush(M(D)), LAMBDA m1 :
    Bind(xipfs_fs_remove(m1.nvm, xipfs_filp), LAMBDA r :
        IF r.ret < 0 THEN [d |-> WithM(D, [m1 EXCEPT !.nvm = r.mem]), ret |-> -1]
        ELSE [d |-> vfs_open_files_update(WithM(D, [m1 EXCEPT !.nvm = r.mem]),
                                          xipfs_filp, Member(m1.nvm, xipfs_filp, "reserved"),
                                          u),
              ret |-> 0]))

\* the removal of the record that stands for the empty parent directory,
\* done by open, mkdir and new_file before they create their file
RemoveParentEntry(D, xipath, u) ==
    IF xipath.witness # NULL
       /\ StrEq(PathOf(Member(D.nvm, xipath.witness, "path")), xipath.dirname)
    THEN sync_remove_file(D, xipath.witness, u)
    ELSE [d |-> D, ret |-> 0]

\* the character i of the path member of the record at filp
PathCh(mem, filp, i) ==
    IF Member(mem, filp, "path") = <<>> THEN FLASHPAGE_ERASE_STATE
    ELSE Ch(Member(mem, filp, "path"), i)

\* the end of xipfs_close0, once the size is up to date in D1
CloseUntrack(D1, h) ==
    Bind(vfs_open_files_untrack(D1, h), LAMBDA t :
        IF t.ret < 0 THEN Err(t.d, "-EIO") ELSE Ok(t.d))

xipfs_close0(D, h) ==
    LET f == D.files[h]
    IN  IF ~vfs_open_files_is_tracked(D, h) THEN Err(D, "-EBADF")
        ELSE IF f.ptr = xipfs_infos_ptr THEN CloseUntrack(D, h)
        ELSE Bind(xipfs_file_get_size(M(D), f.ptr), LAMBDA g :
             IF g.size < 0 THEN Err(WithM(D, g.m), "-EIO")
             ELSE IF g.size < f.pos
             THEN Bind(xipfs_file_set_size(g.m, f.ptr, f.pos), LAMBDA s :
                      IF s.ret < 0 THEN Err(WithM(D, s.m), "-EIO")
                      ELSE CloseUntrack(WithM(D, s.m), h))
             ELSE CloseUntrack(WithM(D, g.m), h))

\* n is st_size, data is <<st_blocks>>
xipfs_fstat0(D, h) ==
    LET f == D.files[h]
    IN  IF ~vfs_open_files_is_tracked(D, h) THEN Err(D, "-EBADF")
        ELSE IF f.ptr = xipfs_infos_ptr THEN Err(D, "-EBADF")
        ELSE Bind(xipfs_file_get_size(M(D), f.ptr), LAMBDA g :
             IF g.size < 0 THEN Err(WithM(D, g.m), "-EIO")
             ELSE Bind(xipfs_file_get_reserved(g.m.nvm, f.ptr), LAMBDA reserved :
                  IF reserved < 0 THEN Err(WithM(D, g.m), "-EIO")
                  ELSE R(WithM(D, g.m), "OK", IF g.size > f.pos THEN g.size ELSE f.pos,
                         <<reserved \div FLASHPAGE_SIZE>>)))

\* sizeof(xipfs_mount_t) counted in cells: the members vfs, magic and nbpage
sizeof_xipfs_mount_t == Cardinality(DOMAIN xipfs_mp)

\* the end of xipfs_lseek0 without the test of the new position against
\* max_pos
LseekUnbounded(D, h, off, whence, max_pos, g) ==
    LET f == D.files[h]
        new_pos == IF whence = "SEEK_SET" THEN off
                   ELSE IF whence = "SEEK_CUR" THEN Int32(f.pos + off)
                   ELSE Int32((IF f.pos > g.size THEN f.pos ELSE g.size) + off)
    IN  IF new_pos < 0 THEN Err(WithM(D, g.m), "-EINVAL")
        ELSE IF f.pos > g.size /\ new_pos < f.pos
        THEN Bind(xipfs_file_set_size(g.m, f.ptr, f.pos), LAMBDA s :
                 IF s.ret < 0 THEN Err(WithM(D, s.m), "-EIO")
                 ELSE R([WithM(D, s.m) EXCEPT !.files[h].pos = new_pos], "OK", new_pos, <<>>))
        ELSE R([WithM(D, g.m) EXCEPT !.files[h].pos = new_pos], "OK", new_pos, <<>>)

\* the end of xipfs_lseek0, once max_pos and the size g are known
LseekTo(D, h, off, whence, max_pos, g) ==
    LET f == D.files[h]
        new_pos == IF whence = "SEEK_SET" THEN off
                   ELSE IF whence = "SEEK_CUR" THEN Int32(f.pos + off)
                   ELSE Int32((IF f.pos > g.size THEN f.pos ELSE g.size) + off)
    IN  IF whence \notin {"SEEK_SET", "SEEK_CUR", "SEEK_END"}
        THEN Err(WithM(D, g.m), "-EINVAL")
        ELSE IF new_pos < 0 \/ new_pos > max_pos THEN Err(WithM(D, g.m), "-EINVAL")
        ELSE IF f.pos > g.size /\ new_pos < f.pos
        THEN Bind(xipfs_file_set_size(g.m, f.ptr, f.pos), LAMBDA s :
                 IF s.ret < 0 THEN Err(WithM(D, s.m), "-EIO")
                 ELSE R([WithM(D, s.m) EXCEPT !.files[h].pos = new_pos], "OK", new_pos, <<>>))
        ELSE R([WithM(D, g.m) EXCEPT !.files[h].pos = new_pos], "OK", new_pos, <<>>)

xipfs_lseek0(D, h, off, whence) ==
    LET f == D.files[h]
    IN  IF ~vfs_open_files_is_tracked(D, h) THEN Err(D, "-EBADF")
        ELSE IF f.ptr = xipfs_infos_ptr
        THEN LseekTo(D, h, off, whence, sizeof_xipfs_mount_t,
                     [m |-> M(D), size |-> sizeof_xipfs_mount_t])
        ELSE Bind(xipfs_file_get_max_pos(D.nvm, f.ptr), LAMBDA max_pos :
             IF max_pos < 0 THEN Err(D, "-EIO")
             ELSE Bind(xipfs_file_get_size(M(D), f.ptr), LAMBDA g :
                  IF g.size < 0 THEN Err(WithM(D, g.m), "-EIO")
                  ELSE LseekTo(D, h, off, whence, max_pos, g)))

\* the end of xipfs_open0: the file structure is tracked
OpenTrack(D3, h) ==
    Bind(vfs_open_files_track(D3, h), LAMBDA t :
        IF t.ret < 0 THEN Err(t.d, "-ENFILE") ELSE Ok(t.d))

\* xipfs_open0 once the file to open is known to be at filp
OpenFile(D1, h, filp, flags) ==
    LET D2 == [D1 EXCEPT !.files[h].ptr = filp]
    IN  IF "O_APPEND" \in flags
        THEN Bind(xipfs_file_get_size(M(D2), filp), LAMBDA g :
                 IF g.size < 0
                 THEN Err([WithM(D2, g.m) EXCEPT !.files[h].pos = g.size], "-EIO")
                 ELSE OpenTrack([WithM(D2, g.m) EXCEPT !.files[h].pos = g.size], h))
        ELSE OpenTrack([D2 EXCEPT !.files[h].pos = 0], h)

\* flags is the set of the O_ flags given; O_RDONLY is the empty set
xipfs_open0(D, h, name, flags) ==
    LET creat_excl == "O_CREAT" \in flags /\ "O_EXCL" \in flags
    IN  IF xipfs_mp_check # "OK" THEN Err(D, xipfs_mp_check)
        ELSE IF Len(name) >= XIPFS_PATH_MAX THEN Err(D, "-ENAMETOOLONG")
        ELSE IF StrnEq(basename(name), xipfs_infos_file, XIPFS_PATH_MAX)
        THEN (IF creat_excl THEN Err(D, "-EEXIST")
              ELSE IF flags \cap {"O_WRONLY", "O_APPEND", "O_RDWR"} # {} THEN Err(D, "-EACCES")
              ELSE OpenTrack([D EXCEPT !.files[h].ptr = xipfs_infos_ptr], h))
        ELSE Bind(xipfs_path_new(D.nvm, name), LAMBDA xipath :
        IF xipath.ret # "OK" THEN Err(D, "-EIO")
        ELSE IF xipath.info = XIPFS_PATH_EXISTS_AS_FILE
        THEN (IF creat_excl THEN Err(D, "-EEXIST")
              ELSE OpenFile(D, h, xipath.witness, flags))
        ELSE IF xipath.info \in {XIPFS_PATH_EXISTS_AS_EMPTY_DIR,
                                 XIPFS_PATH_EXISTS_AS_NONEMPTY_DIR} THEN Err(D, "-EISDIR")
        ELSE IF xipath.info = XIPFS_PATH_INVALID_BECAUSE_NOT_DIRS THEN Err(D, "-ENOTDIR")
        ELSE IF xipath.info = XIPFS_PATH_INVALID_BECAUSE_NOT_FOUND THEN Err(D, "-ENOENT")
        ELSE IF xipath.info # XIPFS_PATH_CREATABLE THEN Err(D, "-EIO")
        ELSE IF "O_CREAT" \notin flags THEN Err(D, "-ENOENT")
        ELSE IF Ch(xipath.path, xipath.len - 1) = 47 THEN Err(D, "-EISDIR")
        ELSE Bind(IF xipath.dirname # <<47>> THEN RemoveParentEntry(D, xipath, u_of(D))
                  ELSE [d |-> D, ret |-> 0],
                  LAMBDA rm :
        IF rm.d.ub = "fault" THEN Err(rm.d, "FAULT")
        ELSE IF rm.ret < 0 THEN Err(rm.d, "-EIO")
        ELSE Bind(xipfs_fs_new_file(M(rm.d), name, 0, 0), LAMBDA nf :
        IF nf.p = NULL
        THEN Err(WithM(rm.d, nf.m),
                 IF nf.errno \in {"XIPFS_ENOSPACE", "XIPFS_EFULL"} THEN "-EDQUOT" ELSE "-EIO")
        ELSE OpenFile(WithM(rm.d, nf.m), h, nf.p, flags))))

\* the bytes of the mount point structure read through a char pointer
MountBytes ==
    <<xipfs_mp.private_data % 2^8, xipfs_mp.magic[Len(xipfs_mp.magic)], xipfs_mp.nbpage % 2^8>>

\* the while loop of xipfs_read0 after i bytes
RECURSIVE ReadLoop(_, _, _, _, _, _)
ReadLoop(D, h, nbytes, size, i, dest) ==
    IF ~(i < nbytes /\ D.files[h].pos < size) THEN R(D, "OK", i, dest)
    ELSE Bind(xipfs_file_read_8(M(D), D.files[h]), LAMBDA r :
             IF r.ret < 0 THEN R(WithM(D, r.m), "-EIO", 0, dest)
             ELSE ReadLoop([WithM(D, r.m) EXCEPT !.files[h].pos = @ + 1], h, nbytes, size,
                           i + 1, Append(dest, r.byte)))

xipfs_read0(D, h, nbytes) ==
    LET i == IF nbytes < sizeof_xipfs_mount_t THEN nbytes ELSE sizeof_xipfs_mount_t
    IN  IF ~vfs_open_files_is_tracked(D, h) THEN Err(D, "-EBADF")
        ELSE IF D.files[h].ptr = xipfs_infos_ptr THEN R(D, "OK", i, SubSeq(MountBytes, 1, i))
        ELSE Bind(xipfs_file_get_size(M(D), D.files[h].ptr), LAMBDA g :
                 IF g.size < 0 THEN Err(WithM(D, g.m), "-EIO")
                 ELSE ReadLoop(WithM(D, g.m), h, nbytes, g.size, 0, <<>>))

\* the while loop of xipfs_write0 after i bytes
RECURSIVE WriteLoop(_, _, _, _, _)
WriteLoop(D, h, src, max_pos, i) ==
    IF ~(i < Len(src) /\ D.files[h].pos < max_pos) THEN R(D, "OK", i, <<>>)
    ELSE Bind(xipfs_file_write_8(M(D), D.files[h], src[i + 1]), LAMBDA w :
             IF w.ret < 0 THEN Err(WithM(D, w.m), "-EIO")
             ELSE WriteLoop([WithM(D, w.m) EXCEPT !.files[h].pos = @ + 1], h, src,
                            max_pos, i + 1))

\* xipfs_write0 without the test of the virtual file
WriteNoVirtualTest(D, h, src) ==
    IF ~vfs_open_files_is_tracked(D, h) THEN Err(D, "-EBADF")
    ELSE Bind(xipfs_file_get_max_pos(D.nvm, D.files[h].ptr), LAMBDA max_pos :
             IF max_pos < 0 THEN Err(D, "-EIO")
             ELSE WriteLoop(D, h, src, max_pos, 0))

xipfs_write0(D, h, src) ==
    IF ~vfs_open_files_is_tracked(D, h) THEN Err(D, "-EBADF")
    ELSE IF D.files[h].ptr = xipfs_infos_ptr THEN Err(D, "-EBADF")
    ELSE Bind(xipfs_file_get_max_pos(D.nvm, D.files[h].ptr), LAMBDA max_pos :
             IF max_pos < 0 THEN Err(D, "-EIO")
             ELSE WriteLoop(D, h, src, max_pos, 0))

xipfs_fsync0(D, h) ==
    IF ~vfs_open_files_is_tracked(D, h) THEN Err(D, "-EBADF")
    ELSE Bind(xipfs_file_set_size(M(D), D.files[h].ptr, D.files[h].pos), LAMBDA s :
             IF s.ret < 0 THEN Err(WithM(D, s.m), "-EIO") ELSE Ok(WithM(D, s.m)))

\* the open directory structure left by xipfs_opendir0 is dirp.  len is the
\* length of the path xipfs_path_new has completed with a slash: for a
\* dirname given without its last slash the slash is stored after the null
\* character that ends the copy of dirname, which stays as it was given
xipfs_opendir0(mem, dirname) ==
    LET fail(e) == [ret |-> e, dirp |-> [dirname |-> <<>>, filp |-> NULL]]
    IN  IF xipfs_mp_check # "OK" THEN fail(xipfs_mp_check)
        ELSE IF dirname = <<>> THEN fail("-ENOENT")
        ELSE IF Len(dirname) >= XIPFS_PATH_MAX THEN fail("-ENAMETOOLONG")
        ELSE Bind(xipfs_fs_head(mem), LAMBDA headp :
        IF headp.p = NULL /\ headp.errno # "XIPFS_OK" THEN fail("-EIO")
        ELSE IF headp.p = NULL THEN [ret |-> "OK", dirp |-> [dirname |-> <<47>>, filp |-> NULL]]
        ELSE IF dirname = <<47>>
        THEN [ret |-> "OK", dirp |-> [dirname |-> <<47>>, filp |-> headp.p]]
        ELSE Bind(xipfs_path_new(mem, dirname), LAMBDA xipath :
        IF xipath.ret # "OK" THEN fail("-EIO")
        ELSE IF xipath.info \in {XIPFS_PATH_EXISTS_AS_FILE, XIPFS_PATH_INVALID_BECAUSE_NOT_DIRS}
        THEN fail("-ENOTDIR")
        ELSE IF xipath.info \in {XIPFS_PATH_INVALID_BECAUSE_NOT_FOUND, XIPFS_PATH_CREATABLE}
        THEN fail("-ENOENT")
        ELSE IF xipath.info \notin {XIPFS_PATH_EXISTS_AS_EMPTY_DIR,
                                    XIPFS_PATH_EXISTS_AS_NONEMPTY_DIR} THEN fail("-EIO")
        ELSE IF Ch(dirname, xipath.len - 1) # 47 /\ xipath.len + 1 = XIPFS_PATH_MAX
        THEN [ret |-> "-ENAMETOOLONG", dirp |-> [dirname |-> dirname, filp |-> headp.p]]
        ELSE [ret |-> "OK",
              dirp |-> [dirname |-> IF Ch(dirname, xipath.len - 1) # 47 /\ xipath.len <= Len(dirname)
                                    THEN SubSeq(dirname, 1, xipath.len) \o <<47>>
                                    ELSE dirname,
                        filp |-> headp.p]]))

\* the do-while loop of already_display entered with curp; the inner while
\* loop never iterates, so only the characters at index n are compared
RECURSIVE AlreadyDisplayFrom(_, _, _, _)
AlreadyDisplayFrom(mem, curp, filp, n) ==
    IF curp = NULL \/ curp = filp THEN -1
    ELSE IF (\A i \in 0..(n - 1) : PathCh(mem, curp, i) = PathCh(mem, filp, i))
            /\ PathCh(mem, curp, n) = PathCh(mem, filp, n) THEN 0
    ELSE AlreadyDisplayFrom(mem, xipfs_fs_next(mem, curp).p, filp, n)

already_display(mem, filp, n) == AlreadyDisplayFrom(mem, xipfs_fs_head(mem).p, filp, n)

\* the outer while loop of xipfs_readdir0; n is the value returned when ret
\* is "OK": 1 when d_name holds an entry, 0 at the end of the directory
RECURSIVE ReaddirLoop(_, _, _)
ReaddirLoop(mem, dirp, errno) ==
    LET out(ret, n, f, name) == [ret |-> ret, n |-> n, d_name |-> name,
                                 dirp |-> [dirp EXCEPT !.filp = f]]
    IN  IF dirp.filp = NULL
        THEN out(IF errno # "XIPFS_OK" THEN "-EIO" ELSE "OK", 0, NULL, <<>>)
        ELSE Bind(PathOf(Member(mem, dirp.filp, "path")), LAMBDA fp :
             Bind(compare_paths(fp, dirp.dirname), LAMBDA i0 :
             IF i0 = XIPFS_PATH_MAX THEN out("-ENAMETOOLONG", 0, dirp.filp, <<>>)
             ELSE Bind(xipfs_fs_next(mem, dirp.filp), LAMBDA nx :
             LET i == IF Ch(fp, i0) = 47 THEN i0 + 1 ELSE i0
                 ends == {j \in i..(XIPFS_PATH_MAX - 1) : Ch(fp, j) = 0 \/ Ch(fp, j) = 47}
                 j == MinOf(ends)
             IN  IF Ch(dirp.dirname, i0) = 0 /\ already_display(mem, dirp.filp, i) < 0
                 THEN (IF ends = {} THEN out("-ENAMETOOLONG", 0, dirp.filp, <<>>)
                       ELSE IF nx.p = NULL /\ nx.errno # "XIPFS_OK"
                       THEN out("-EIO", 0, NULL, <<>>)
                       ELSE out("OK", 1, nx.p,
                                SubSeq(fp, i + 1, IF Ch(fp, j) = 47 THEN j + 1 ELSE j)))
                 ELSE ReaddirLoop(mem, [dirp EXCEPT !.filp = nx.p],
                                  IF nx.errno # "XIPFS_OK" THEN nx.errno ELSE errno))))

xipfs_readdir0(mem, dirp) ==
    IF xipfs_mp_check # "OK"
    THEN [ret |-> xipfs_mp_check, n |-> 0, d_name |-> <<>>, dirp |-> dirp]
    ELSE ReaddirLoop(mem, dirp, "XIPFS_OK")

xipfs_closedir0(dirp) == [dirname |-> <<>>, filp |-> NULL]

xipfs_format0(D) ==
    IF xipfs_mp_check # "OK" THEN Err(D, xipfs_mp_check)
    ELSE Bind(vfs_open_files_untrack_all([D EXCEPT !.nvm = xipfs_fs_format(D.nvm)], u_of(D)),
              LAMBDA D1 : IF D1.ub = "fault" THEN Err(D1, "FAULT") ELSE Ok(D1))

xipfs_mount0(mem) ==
    IF xipfs_mp_check # "OK" THEN xipfs_mp_check
    ELSE Bind(xipfs_fs_tail(mem), LAMBDA t :
         IF t.p = NULL /\ t.errno # "XIPFS_OK" THEN "-EIO"
         ELSE Bind(xipfs_fs_tail_next(mem), LAMBDA start :
              LET end == xipfs_mp.private_data + xipfs_mp.nbpage * FLASHPAGE_SIZE
              IN  IF start.p = NULL /\ start.errno # "XIPFS_OK" THEN "-EIO"
                  ELSE IF \E page \in MountPages :
                              /\ start.p # NULL
                              /\ flashpage_addr(page) >= start.p /\ flashpage_addr(page) < end
                              /\ ~xipfs_flash_is_erased_page(mem, page)
                  THEN "-EIO"
                  ELSE "OK"))

xipfs_umount == "OK"

\* what xipfs_unlink0 and xipfs_rmdir0 do once the path is classified: the
\* removal, then the record of the parent directory when it becomes empty
RemoveEntry(D, xipath) ==
    Bind(sync_remove_file(D, xipath.witness, u_of(D)), LAMBDA rm :
        IF rm.d.ub = "fault" THEN Err(rm.d, "FAULT")
        ELSE IF rm.ret < 0 THEN Err(rm.d, "-EIO")
        ELSE IF xipath.parent = 1 /\ xipath.dirname # <<47>>
        THEN Bind(xipfs_fs_new_file(M(rm.d), xipath.dirname, FLASHPAGE_SIZE, 0), LAMBDA nf :
                 IF nf.p = NULL THEN Err(WithM(rm.d, nf.m), "-EIO")
                 ELSE Ok(WithM(rm.d, nf.m)))
        ELSE Ok(rm.d))

xipfs_unlink0(D, name) ==
    IF xipfs_mp_check # "OK" THEN Err(D, xipfs_mp_check)
    ELSE IF name = <<>> THEN Err(D, "-ENOENT")
    ELSE IF name = <<47>> THEN Err(D, "-EISDIR")
    ELSE IF Len(name) >= XIPFS_PATH_MAX THEN Err(D, "-ENAMETOOLONG")
    ELSE Bind(xipfs_path_new(D.nvm, name), LAMBDA xipath :
        IF xipath.ret # "OK" THEN Err(D, "-EIO")
        ELSE IF xipath.info \in {XIPFS_PATH_EXISTS_AS_EMPTY_DIR,
                                 XIPFS_PATH_EXISTS_AS_NONEMPTY_DIR} THEN Err(D, "-EISDIR")
        ELSE IF xipath.info = XIPFS_PATH_INVALID_BECAUSE_NOT_DIRS THEN Err(D, "-ENOTDIR")
        ELSE IF xipath.info \in {XIPFS_PATH_INVALID_BECAUSE_NOT_FOUND, XIPFS_PATH_CREATABLE}
        THEN Err(D, "-ENOENT")
        ELSE IF xipath.info # XIPFS_PATH_EXISTS_AS_FILE THEN Err(D, "-EIO")
        ELSE RemoveEntry(D, xipath))

xipfs_mkdir0(D, name) ==
    IF xipfs_mp_check # "OK" THEN Err(D, xipfs_mp_check)
    ELSE IF name = <<>> THEN Err(D, "-ENOENT")
    ELSE IF name = <<47>> THEN Err(D, "-EEXIST")
    ELSE IF Len(name) >= XIPFS_PATH_MAX THEN Err(D, "-ENAMETOOLONG")
    ELSE Bind(xipfs_path_new(D.nvm, name), LAMBDA xipath :
        LET slash == Ch(xipath.path, xipath.len - 1) # 47
            path == IF slash THEN xipath.path \o <<47>> ELSE xipath.path
        IN  IF xipath.ret # "OK" THEN Err(D, "-EIO")
            ELSE IF xipath.info \in {XIPFS_PATH_EXISTS_AS_FILE, XIPFS_PATH_EXISTS_AS_EMPTY_DIR,
                                     XIPFS_PATH_EXISTS_AS_NONEMPTY_DIR} THEN Err(D, "-EEXIST")
            ELSE IF xipath.info = XIPFS_PATH_INVALID_BECAUSE_NOT_DIRS THEN Err(D, "-ENOTDIR")
            ELSE IF xipath.info = XIPFS_PATH_INVALID_BECAUSE_NOT_FOUND THEN Err(D, "-ENOENT")
            ELSE IF xipath.info # XIPFS_PATH_CREATABLE THEN Err(D, "-EIO")
            ELSE IF slash /\ xipath.len = XIPFS_PATH_MAX - 1 THEN Err(D, "-ENAMETOOLONG")
            ELSE Bind(RemoveParentEntry(D, xipath, u_of(D)), LAMBDA rm :
                 IF rm.d.ub = "fault" THEN Err(rm.d, "FAULT")
                 ELSE IF rm.ret < 0 THEN Err(rm.d, "-EIO")
                 ELSE Bind(xipfs_fs_new_file(M(rm.d), path, FLASHPAGE_SIZE, 0), LAMBDA nf :
                          IF nf.p = NULL THEN Err(WithM(rm.d, nf.m), "-EIO")
                          ELSE Ok(WithM(rm.d, nf.m)))))

xipfs_rmdir0(D, name) ==
    IF xipfs_mp_check # "OK" THEN Err(D, xipfs_mp_check)
    ELSE IF name = <<>> THEN Err(D, "-ENOENT")
    ELSE IF name = <<47>> THEN Err(D, "-EBUSY")
    ELSE IF Len(name) >= XIPFS_PATH_MAX THEN Err(D, "-ENAMETOOLONG")
    ELSE IF name[Len(name)] = 46 THEN Err(D, "-EINVAL")
    ELSE Bind(xipfs_path_new(D.nvm, name), LAMBDA xipath :
        IF xipath.ret # "OK" THEN Err(D, "-EIO")
        ELSE IF xipath.info \in {XIPFS_PATH_EXISTS_AS_FILE, XIPFS_PATH_INVALID_BECAUSE_NOT_DIRS}
        THEN Err(D, "-ENOTDIR")
        ELSE IF xipath.info = XIPFS_PATH_EXISTS_AS_NONEMPTY_DIR THEN Err(D, "-ENOTEMPTY")
        ELSE IF xipath.info \in {XIPFS_PATH_INVALID_BECAUSE_NOT_FOUND, XIPFS_PATH_CREATABLE}
        THEN Err(D, "-ENOENT")
        ELSE IF xipath.info # XIPFS_PATH_EXISTS_AS_EMPTY_DIR THEN Err(D, "-EIO")
        ELSE RemoveEntry(D, xipath))

\* the do-while loop of xipfs_fs_rename_all (fs.c) entered with filp
RECURSIVE RenameAllFrom(_, _, _, _, _)
RenameAllFrom(m, filp, from, to, counter) ==
    LET fp == PathOf(Member(m.nvm, filp, "path"))
        match == StrnEq(fp, from, Len(from))
        whole == to \o SubSeq(fp, Len(from) + 1, Len(fp))
        path == IF Len(whole) > XIPFS_PATH_MAX - 1
                THEN SubSeq(whole, 1, XIPFS_PATH_MAX - 1) ELSE whole
    IN  Bind(IF match THEN xipfs_file_rename(m, filp, path) ELSE [m |-> m, ret |-> 0],
             LAMBDA r :
        IF r.ret < 0 THEN [m |-> r.m, ret |-> -1]
        ELSE Bind(xipfs_fs_next(r.m.nvm, filp), LAMBDA n :
             LET c == IF match THEN counter + 1 ELSE counter
             IN  IF n.p # NULL THEN RenameAllFrom(r.m, n.p, from, to, c)
                 ELSE IF n.errno # "XIPFS_OK" THEN [m |-> r.m, ret |-> -1]
                 ELSE [m |-> r.m, ret |-> c]))

xipfs_fs_rename_all(m, from, to) ==
    IF Len(from) >= XIPFS_PATH_MAX \/ Len(to) >= XIPFS_PATH_MAX THEN [m |-> m, ret |-> -1]
    ELSE Bind(xipfs_fs_head(m.nvm), LAMBDA h :
             IF h.p # NULL THEN RenameAllFrom(m, h.p, from, to, 0)
             ELSE IF h.errno # "XIPFS_OK" THEN [m |-> m, ret |-> -1]
             ELSE [m |-> m, ret |-> 0])

\* the nested switch of xipfs_rename0: err is the value returned from inside
\* the switch ("" when the switch is left by a break), ret the number of
\* records renamed
RenameSwitch(m, x0, x1) ==
    LET FILE == XIPFS_PATH_EXISTS_AS_FILE
        EMPTY == XIPFS_PATH_EXISTS_AS_EMPTY_DIR
        NONEMPTY == XIPFS_PATH_EXISTS_AS_NONEMPTY_DIR
        NOTDIRS == XIPFS_PATH_INVALID_BECAUSE_NOT_DIRS
        NOTFOUND == XIPFS_PATH_INVALID_BECAUSE_NOT_FOUND
        CREATE == XIPFS_PATH_CREATABLE
        slash == Ch(x1.path, x1.len - 1) # 47
        to_dir == IF slash THEN x1.path \o <<47>> ELSE x1.path
        return(e) == [err |-> e, m |-> m, ret |-> 0]
        one(r) == IF r.ret < 0 THEN [err |-> "-EIO", m |-> r.m, ret |-> 0]
                  ELSE [err |-> "", m |-> r.m, ret |-> 1]
        all(r) == IF r.ret < 0 THEN [err |-> "-EIO", m |-> r.m, ret |-> 0]
                  ELSE [err |-> "", m |-> r.m, ret |-> r.ret]
    IN  IF x0.info = FILE
        THEN (IF x1.info = FILE
              THEN (IF x0.witness = x1.witness THEN return("OK")
                    ELSE one(xipfs_file_rename(m, x0.witness, x1.path)))
              ELSE IF x1.info \in {EMPTY, NONEMPTY} THEN return("-EISDIR")
              ELSE IF x1.info = NOTDIRS THEN return("-ENOTDIR")
              ELSE IF x1.info = NOTFOUND THEN return("-ENOENT")
              ELSE IF x1.info = CREATE
              THEN (IF ~slash THEN return("-ENOTDIR")
                    ELSE one(xipfs_file_rename(m, x0.witness, x1.path)))
              ELSE return("-EIO"))
        ELSE IF x0.info = EMPTY
        THEN (IF x1.info = FILE THEN return("-ENOTDIR")
              ELSE IF x1.info = EMPTY
              THEN (IF x0.witness = x1.witness THEN return("OK")
                    ELSE one(xipfs_file_rename(m, x0.witness, x1.path)))
              ELSE IF x1.info = NONEMPTY THEN return("-ENOTEMPTY")
              ELSE IF x1.info = NOTDIRS THEN return("-ENOTDIR")
              ELSE IF x1.info = NOTFOUND THEN return("-ENOENT")
              ELSE IF x1.info = CREATE
              THEN (IF slash /\ x1.len = XIPFS_PATH_MAX - 1 THEN return("-ENAMETOOLONG")
                    ELSE IF StrnEq(x0.path, to_dir, x0.len) THEN return("-EINVAL")
                    ELSE one(xipfs_file_rename(m, x0.witness, to_dir)))
              ELSE return("-EIO"))
        ELSE IF x0.info = NONEMPTY
        THEN (IF x1.info = FILE THEN return("-ENOTDIR")
              ELSE IF x1.info = EMPTY
              THEN (IF StrnEq(x0.path, x1.path, x0.len) THEN return("-EINVAL")
                    ELSE all(xipfs_fs_rename_all(m, x0.path, x1.path)))
              ELSE IF x1.info = NONEMPTY THEN return("-ENOTEMPTY")
              ELSE IF x1.info = NOTDIRS THEN return("-ENOTDIR")
              ELSE IF x1.info = NOTFOUND THEN return("-ENOENT")
              ELSE IF x1.info = CREATE
              THEN (IF slash /\ x1.len = XIPFS_PATH_MAX - 1 THEN return("-ENAMETOOLONG")
                    ELSE IF StrnEq(x0.path, to_dir, x0.len) THEN return("-EINVAL")
                    ELSE all(xipfs_fs_rename_all(m, x0.path, to_dir)))
              ELSE return("-EIO"))
        ELSE IF x0.info = NOTDIRS THEN return("-ENOTDIR")
        ELSE IF x0.info \in {NOTFOUND, CREATE} THEN return("-ENOENT")
        ELSE return("-EIO")


\* the end of xipfs_rename0: the record that stands for the empty directory
\* of the new path is removed
RenameParent(D2, x1, u) ==
    Bind(RemoveParentEntry(D2, x1, u), LAMBDA rm :
        IF rm.d.ub = "fault" THEN Err(rm.d, "FAULT")
        ELSE IF rm.ret < 0 THEN Err(rm.d, "-EIO")
        ELSE Ok(rm.d))

xipfs_rename0(D, from_path, to_path) ==
    IF xipfs_mp_check # "OK" THEN Err(D, xipfs_mp_check)
    ELSE IF from_path = <<>> \/ to_path = <<>> THEN Err(D, "-ENOENT")
    ELSE IF Len(from_path) >= XIPFS_PATH_MAX \/ Len(to_path) >= XIPFS_PATH_MAX
    THEN Err(D, "-ENAMETOOLONG")
    ELSE Bind(<<xipfs_path_new(D.nvm, from_path), xipfs_path_new(D.nvm, to_path)>>,
              LAMBDA xipaths :
        LET x0 == xipaths[1]
            x1 == xipaths[2]
        IN  IF x0.ret # "OK" \/ x1.ret # "OK" THEN Err(D, "-EIO")
            ELSE Bind(RenameSwitch(M(D), x0, x1), LAMBDA sw :
                 IF sw.err # "" THEN Err(WithM(D, sw.m), sw.err)
                 ELSE IF x0.parent = sw.ret /\ x0.dirname # <<47>>
                         /\ ~StrEq(x0.dirname, x1.dirname)
                 THEN Bind(xipfs_fs_new_file(sw.m, x0.dirname, FLASHPAGE_SIZE, 0), LAMBDA nf :
                          IF nf.p = NULL THEN Err(WithM(D, nf.m), "-EIO")
                          ELSE RenameParent(WithM(D, nf.m), x1, u_of(D)))
                 ELSE RenameParent(WithM(D, sw.m), x1, u_of(D))))

\* the two values st_mode takes
S_IFREG == "S_IFREG"
S_IFDIR == "S_IFDIR"

\* n is st_size, data is <<st_blocks, st_mode>>
xipfs_stat0(D, path) ==
    IF xipfs_mp_check # "OK" THEN Err(D, xipfs_mp_check)
    ELSE IF path = <<>> THEN Err(D, "-ENOENT")
    ELSE IF Len(path) >= XIPFS_PATH_MAX THEN Err(D, "-ENAMETOOLONG")
    ELSE Bind(xipfs_path_new(D.nvm, path), LAMBDA xipath :
        IF xipath.ret # "OK" THEN Err(D, "-EIO")
        ELSE IF xipath.info = XIPFS_PATH_INVALID_BECAUSE_NOT_DIRS THEN Err(D, "-ENOTDIR")
        ELSE IF xipath.info \in {XIPFS_PATH_INVALID_BECAUSE_NOT_FOUND, XIPFS_PATH_CREATABLE}
        THEN Err(D, "-ENOENT")
        ELSE IF xipath.info \notin {XIPFS_PATH_EXISTS_AS_FILE, XIPFS_PATH_EXISTS_AS_EMPTY_DIR,
                                    XIPFS_PATH_EXISTS_AS_NONEMPTY_DIR} THEN Err(D, "-EIO")
        ELSE IF ~StrEq(PathOf(Member(D.nvm, xipath.witness, "path")), xipath.path)
        THEN Err(D, "-ENOENT")
        ELSE Bind(xipfs_file_get_size_(M(D), xipath.witness), LAMBDA g :
                 IF g.size < 0 THEN Err(WithM(D, g.m), "-EIO")
                 ELSE R(WithM(D, g.m), "OK", g.size,
                        <<Member(D.nvm, xipath.witness, "reserved") \div FLASHPAGE_SIZE,
                          IF path[Len(path)] # 47 THEN S_IFREG ELSE S_IFDIR>>)))

\* n is f_bfree, data is <<f_blocks>>
xipfs_statvfs0(mem) ==
    IF xipfs_mp_check # "OK" THEN [ret |-> xipfs_mp_check, n |-> 0, data |-> <<>>]
    ELSE IF xipfs_fs_get_page_number < 0 THEN [ret |-> "-EIO", n |-> 0, data |-> <<>>]
    ELSE Bind(xipfs_fs_free_pages(mem), LAMBDA free_pages :
             IF free_pages.n < 0 THEN [ret |-> "-EIO", n |-> 0, data |-> <<>>]
             ELSE [ret |-> "OK", n |-> free_pages.n, data |-> <<xipfs_fs_get_page_number>>])

xipfs_new_file0(D, path, size, exec) ==
    IF xipfs_mp_check # "OK" THEN Err(D, xipfs_mp_check)
    ELSE IF path = <<>> THEN Err(D, "-ENOENT")
    ELSE IF path = <<47>> THEN Err(D, "-EISDIR")
    ELSE IF Len(path) >= XIPFS_PATH_MAX THEN Err(D, "-ENAMETOOLONG")
    ELSE IF exec # 0 /\ exec # 1 THEN Err(D, "-EINVAL")
    ELSE Bind(xipfs_path_new(D.nvm, path), LAMBDA xipath :
        IF xipath.ret # "OK" THEN Err(D, "-EIO")
        ELSE IF xipath.info = XIPFS_PATH_EXISTS_AS_FILE THEN Err(D, "-EEXIST")
        ELSE IF xipath.info \in {XIPFS_PATH_EXISTS_AS_EMPTY_DIR,
                                 XIPFS_PATH_EXISTS_AS_NONEMPTY_DIR} THEN Err(D, "-EISDIR")
        ELSE IF xipath.info = XIPFS_PATH_INVALID_BECAUSE_NOT_DIRS THEN Err(D, "-ENOTDIR")
        ELSE IF xipath.info = XIPFS_PATH_INVALID_BECAUSE_NOT_FOUND THEN Err(D, "-ENOENT")
        ELSE IF xipath.info # XIPFS_PATH_CREATABLE THEN Err(D, "-EIO")
        ELSE IF Ch(xipath.path, xipath.len - 1) = 47 THEN Err(D, "-EISDIR")
        ELSE Bind(IF xipath.dirname # <<47>> THEN RemoveParentEntry(D, xipath, u_of(D))
                  ELSE [d |-> D, ret |-> 0],
                  LAMBDA rm :
             IF rm.d.ub = "fault" THEN Err(rm.d, "FAULT")
             ELSE IF rm.ret < 0 THEN Err(rm.d, "-EIO")
             ELSE Bind(xipfs_fs_new_file(M(rm.d), path, size, exec), LAMBDA nf :
                  IF nf.p = NULL
                  THEN Err(WithM(rm.d, nf.m),
                           IF nf.errno \in {"XIPFS_ENOSPACE", "XIPFS_EFULL"}
                           THEN "-EDQUOT" ELSE "-EIO")
                  ELSE Ok(WithM(rm.d, nf.m)))))

\* "/dev/nvme0p0", the mount point given to XIPFS_NEW_PARTITION
mount_point == <<47, 100, 101, 118, 47, 110, 118, 109, 101, 48, 112, 48>>

\* a VFS file structure that no open file descriptor uses
FreeFile == [ptr |-> NULL, pos |-> 0]
FreeHandles(D) == {h \in Handles : D.files[h] = FreeFile}

\* get_xipfs_mp: the virtual file .xipfs_infos of the directory is opened
\* through the VFS, read and closed; fd is the file descriptor it gets
get_xipfs_mp(D, path) ==
    LET fd == MinOf(FreeHandles(D))
        len == Len(mount_point) + Len(path)
    IN  IF len >= XIPFS_PATH_MAX THEN Err(D, "-ENAMETOOLONG")
        ELSE IF len + Len(xipfs_infos_file) + 1 > XIPFS_PATH_MAX THEN Err(D, "-ENAMETOOLONG")
        ELSE IF FreeHandles(D) = {} THEN Err(D, "-ENFILE")
        ELSE Bind(xipfs_open0(D, fd, xipfs_path_init(path).dirname \o xipfs_infos_file, {}),
                  LAMBDA o :
             IF o.ret # "OK" THEN Err([o.d EXCEPT !.files[fd] = FreeFile], o.ret)
             ELSE Bind(xipfs_read0(o.d, fd, sizeof_xipfs_mount_t), LAMBDA r :
                  IF r.ret # "OK" THEN Err(r.d, r.ret)
                  ELSE Bind(xipfs_close0(r.d, fd), LAMBDA c :
                           Ok([c.d EXCEPT !.files[fd] = FreeFile]))))

\* path is the path relative to the mount point
xipfs_new_file(D, path, size, exec) ==
    Bind(get_xipfs_mp(D, path), LAMBDA g :
        IF g.ret # "OK" THEN g ELSE xipfs_new_file0(g.d, path, size, exec))

\* xipfs_file_exec: the program stored in the file runs from its entry point
\* and calls exit(status); xipfs_exit restores the stack xipfs_start saved
\* and returns into xipfs_file_exec, which returns 0.  ran tells whether the
\* entry point was branched to.
xipfs_file_exec(mem, filp, status) ==
    IF xipfs_file_filp_check(mem, filp) # "XIPFS_OK" THEN [ret |-> -1, ran |-> FALSE]
    ELSE [ret |-> 0, ran |-> TRUE]

\* the result of an execv: n is the value returned when it is not negative,
\* data holds the status the program passed to exit when the program ran
Ran(D, n, status) == R(D, "OK", n, <<status>>)

\* xipfs_execv0 that runs the file whatever its member exec holds
ExecvNoExecTest(D, path, status) ==
    IF xipfs_mp_check # "OK" THEN Err(D, xipfs_mp_check)
    ELSE IF path = <<>> THEN Err(D, "-ENOENT")
    ELSE IF path = <<47>> THEN Err(D, "-EISDIR")
    ELSE IF Len(path) >= XIPFS_PATH_MAX THEN Err(D, "-ENAMETOOLONG")
    ELSE Bind(xipfs_path_new(D.nvm, path), LAMBDA xipath :
        IF xipath.ret # "OK" THEN Err(D, "-EIO")
        ELSE IF xipath.info \in {XIPFS_PATH_EXISTS_AS_EMPTY_DIR,
                                 XIPFS_PATH_EXISTS_AS_NONEMPTY_DIR} THEN Err(D, "-EISDIR")
        ELSE IF xipath.info = XIPFS_PATH_INVALID_BECAUSE_NOT_DIRS THEN Err(D, "-ENOTDIR")
        ELSE IF xipath.info \in {XIPFS_PATH_INVALID_BECAUSE_NOT_FOUND,
                                 XIPFS_PATH_CREATABLE} THEN Err(D, "-ENOENT")
        ELSE IF xipath.info # XIPFS_PATH_EXISTS_AS_FILE THEN Err(D, "-EIO")
        ELSE Bind(xipfs_file_exec(D.nvm, xipath.witness, status), LAMBDA x :
             IF x.ret < 0 THEN Err(D, "-EIO") ELSE Ran(D, x.ret, status)))

\* the program of the file is the one that calls exit(status)
xipfs_execv0(D, path, status) ==
    IF xipfs_mp_check # "OK" THEN Err(D, xipfs_mp_check)
    ELSE IF path = <<>> THEN Err(D, "-ENOENT")
    ELSE IF path = <<47>> THEN Err(D, "-EISDIR")
    ELSE IF Len(path) >= XIPFS_PATH_MAX THEN Err(D, "-ENAMETOOLONG")
    ELSE Bind(xipfs_path_new(D.nvm, path), LAMBDA xipath :
        IF xipath.ret # "OK" THEN Err(D, "-EIO")
        ELSE IF xipath.info \in {XIPFS_PATH_EXISTS_AS_EMPTY_DIR,
                                 XIPFS_PATH_EXISTS_AS_NONEMPTY_DIR} THEN Err(D, "-EISDIR")
        ELSE IF xipath.info = XIPFS_PATH_INVALID_BECAUSE_NOT_DIRS THEN Err(D, "-ENOTDIR")
        ELSE IF xipath.info \in {XIPFS_PATH_INVALID_BECAUSE_NOT_FOUND,
                                 XIPFS_PATH_CREATABLE} THEN Err(D, "-ENOENT")
        ELSE IF xipath.info # XIPFS_PATH_EXISTS_AS_FILE THEN Err(D, "-EIO")
        ELSE IF Member(D.nvm, xipath.witness, "exec") = 0 THEN Err(D, "-EACCES")
        ELSE IF Member(D.nvm, xipath.witness, "exec") # 1 THEN Err(D, "-EINVAL")
        ELSE Bind(xipfs_file_exec(D.nvm, xipath.witness, status), LAMBDA x :
             IF x.ret < 0 THEN Err(D, "-EIO") ELSE Ran(D, x.ret, status)))

\* path is the path relative to the mount point
xipfs_execv(D, path, status) ==
    Bind(get_xipfs_mp(D, path), LAMBDA g :
        IF g.ret # "OK" THEN g ELSE xipfs_execv0(g.d, path, status))

(***************************************************************************)
(* The state machine.  One step is one call of a public operation, made    *)
(* under xipfs_mutex; last records the call and what it returned.  A call  *)
(* that dereferences an empty slot of vfs_open_files either goes on or     *)
(* faults; after a fault the program has stopped (halted).                 *)
(***************************************************************************)
Outcomes == {"benign", "fault"}

\* the threads of the application
Threads == 1..NbThreads

\* xipfs_mutex is MUTEX_INIT when unlocked, and the thread that locked it
\* otherwise
MUTEX_INIT == 0

\* a thread that is in no call of the driver
Idle == [at |-> "idle", todo |-> <<>>, call |-> <<>>, ret |-> "OK"]

Start(n) ==
    /\ xipfs_mutex = MUTEX_INIT
    /\ thread = [t \in Threads |-> Idle]
    /\ nvm = [page \in MountPages |-> ErasedPage]
    /\ xipfs_buf = BufferKO
    /\ vfs_files = [h \in Handles |-> FreeFile]
    /\ vfs_open_files = [i \in 1..VFS_MAX_OPEN_FILES |-> NULL]
    /\ vfs_dirp = xipfs_closedir0(<<>>)
    /\ last = [op |-> "init", path |-> <<>>, h |-> 0, ret |-> "OK", n |-> 0, data |-> <<>>]
    /\ halted = FALSE
    /\ steps = n

Init == Start(MaxSteps)

Cur(u) == [nvm |-> nvm, buf |-> xipfs_buf, files |-> vfs_files, tab |-> vfs_open_files,
           ub |-> "none", u |-> u, aborts |-> 0, crash |-> NoCrash]

\* a call is made while the program runs and the application has operations
\* left to issue
Running == ~halted /\ steps > 0

\* the state left by a call that returned r
Return(op, path, h, r) ==
    /\ nvm' = r.d.nvm
    /\ xipfs_buf' = r.d.buf
    /\ vfs_files' = r.d.files
    /\ vfs_open_files' = r.d.tab
    /\ last' = [op |-> op, path |-> path, h |-> h, ret |-> r.ret, n |-> r.n, data |-> r.data]
    /\ halted' = (r.d.ub = "fault")
    /\ steps' = steps - 1
    /\ UNCHANGED <<vfs_dirp, xipfs_mutex, thread>>

\* the state left by a call that only reads the NVM
ReturnRead(op, path, ret, n, data) ==
    /\ last' = [op |-> op, path |-> path, h |-> 0, ret |-> ret, n |-> n, data |-> data]
    /\ steps' = steps - 1
    /\ UNCHANGED <<nvm, xipfs_buf, vfs_files, vfs_open_files, vfs_dirp, halted,
                   xipfs_mutex, thread>>

OpenHandles == {h \in Handles : vfs_files[h] # FreeFile}

Format ==
    /\ Running
    /\ \E u \in Outcomes : Return("format", <<>>, 0, xipfs_format0(Cur(u)))

Mount ==
    /\ Running
    /\ ReturnRead("mount", <<>>, xipfs_mount0(nvm), 0, <<>>)

Umount ==
    /\ Running
    /\ ReturnRead("umount", <<>>, xipfs_umount, 0, <<>>)

NewFile(paths, sizes) ==
    /\ Running
    /\ \E path \in paths, size \in sizes, u \in Outcomes :
           Return("new_file", path, 0, xipfs_new_file(Cur(u), path, size, 0))

\* vfs_open gives the driver the first free file structure
Open(paths, flagsets) ==
    /\ Running
    /\ OpenHandles # Handles
    /\ \E path \in paths, flags \in flagsets, u \in Outcomes :
           \E h \in {MinOf(Handles \ OpenHandles)} :
               \E r \in {xipfs_open0(Cur(u), h, path, flags)} :
                   Return("open", path, h,
                          IF r.ret = "OK" THEN r ELSE [r EXCEPT !.d.files[h] = FreeFile])

\* vfs_close frees the file structure whatever the driver returns
Close ==
    /\ Running
    /\ \E h \in OpenHandles :
           \E r \in {xipfs_close0(Cur("benign"), h)} :
               Return("close", <<>>, h, [r EXCEPT !.d.files[h] = FreeFile])

Read(counts) ==
    /\ Running
    /\ \E h \in OpenHandles, nbytes \in counts :
           Return("read", <<>>, h, xipfs_read0(Cur("benign"), h, nbytes))

Write(datas) ==
    /\ Running
    /\ \E h \in OpenHandles, src \in datas :
           \E r \in {xipfs_write0(Cur("benign"), h, src)} :
               Return("write", <<>>, h, [r EXCEPT !.data = src])

Fsync ==
    /\ Running
    /\ \E h \in OpenHandles : Return("fsync", <<>>, h, xipfs_fsync0(Cur("benign"), h))

Lseek(offsets) ==
    /\ Running
    /\ \E h \in OpenHandles, off \in offsets :
           Return("lseek", <<>>, h, xipfs_lseek0(Cur("benign"), h, off, "SEEK_SET"))

\* last.data is the offset and the origin of the call
LseekFrom(offsets, whences) ==
    /\ Running
    /\ \E h \in OpenHandles, off \in offsets, whence \in whences :
           \E r \in {xipfs_lseek0(Cur("benign"), h, off, whence)} :
               Return("lseek", <<>>, h, [r EXCEPT !.data = <<off, whence>>])

Fstat ==
    /\ Running
    /\ \E h \in OpenHandles : Return("fstat", <<>>, h, xipfs_fstat0(Cur("benign"), h))

Unlink(paths) ==
    /\ Running
    /\ \E path \in paths, u \in Outcomes :
           Return("unlink", path, 0, xipfs_unlink0(Cur(u), path))

Mkdir(paths) ==
    /\ Running
    /\ \E path \in paths, u \in Outcomes :
           Return("mkdir", path, 0, xipfs_mkdir0(Cur(u), path))

Rmdir(paths) ==
    /\ Running
    /\ \E path \in paths, u \in Outcomes :
           Return("rmdir", path, 0, xipfs_rmdir0(Cur(u), path))

\* last.path is the old path, last.data the new one
Rename(pairs) ==
    /\ Running
    /\ \E pair \in pairs, u \in Outcomes :
           \E r \in {xipfs_rename0(Cur(u), pair[1], pair[2])} :
               Return("rename", pair[1], 0, [r EXCEPT !.data = pair[2]])

\* the file is created executable (exec is 1) or not (exec is 0)
NewFileExec(paths, execs) ==
    /\ Running
    /\ \E path \in paths, exec \in execs, u \in Outcomes :
           Return("new_file", path, 0, xipfs_new_file(Cur(u), path, 0, exec))

\* the program stored in the file called is one that calls exit(status)
Execv(paths, statuses) ==
    /\ Running
    /\ \E path \in paths, status \in statuses :
           Return("execv", path, 0, xipfs_execv(Cur("benign"), path, status))

Stat(paths) ==
    /\ Running
    /\ \E path \in paths : Return("stat", path, 0, xipfs_stat0(Cur("benign"), path))

Statvfs ==
    /\ Running
    /\ \E r \in {xipfs_statvfs0(nvm)} : ReturnRead("statvfs", <<>>, r.ret, r.n, r.data)

\* the calls on the directory stream: last.data is d_name
ReturnDir(op, path, r, n, data) ==
    /\ vfs_dirp' = r.dirp
    /\ last' = [op |-> op, path |-> path, h |-> 0, ret |-> r.ret, n |-> n, data |-> data]
    /\ steps' = steps - 1
    /\ UNCHANGED <<nvm, xipfs_buf, vfs_files, vfs_open_files, halted, xipfs_mutex, thread>>

Opendir(paths) ==
    /\ Running
    /\ vfs_dirp = xipfs_closedir0(vfs_dirp)
    /\ \E dirname \in paths :
           \E r \in {xipfs_opendir0(nvm, dirname)} :
               ReturnDir("opendir", dirname,
                         IF r.ret = "OK" THEN r ELSE [r EXCEPT !.dirp = xipfs_closedir0(r.dirp)],
                         0, <<>>)

Readdir ==
    /\ Running
    /\ vfs_dirp # xipfs_closedir0(vfs_dirp)
    /\ \E r \in {xipfs_readdir0(nvm, vfs_dirp)} : ReturnDir("readdir", <<>>, r, r.n, r.d_name)

Closedir ==
    /\ Running
    /\ vfs_dirp # xipfs_closedir0(vfs_dirp)
    /\ ReturnDir("closedir", <<>>, [ret |-> "OK", dirp |-> xipfs_closedir0(vfs_dirp)], 0, <<>>)

(***************************************************************************)
(* Arguments of the calls                                                  *)
(***************************************************************************)
\* "/a", "/b", "/d", "/d/f", "/dd"
Path_a == <<47, 97>>
Path_b == <<47, 98>>
Path_d == <<47, 100>>
Path_d_f == <<47, 100, 47, 102>>
Path_dd == <<47, 100, 100>>
Root == <<47>>

\* sizes asking for two pages, and for one page more than the mount point
\* has; the size 0 asks for one page
TwoPages == FLASHPAGE_SIZE + 1
TooManyPages == NbPage * FLASHPAGE_SIZE + 1

\* "ABCD": more bytes than the first page of a file holds after its header
Data == <<65, 66, 67, 68>>

(***************************************************************************)
(* The calls of an application on the whole interface                      *)
(***************************************************************************)
Next ==
    \/ Format
    \/ Mount
    \/ Umount
    \/ NewFile({Path_a, Path_b, Path_d_f}, {0, TooManyPages})
    \/ Open({Path_a}, {{}, {"O_CREAT"}})
    \/ Close
    \/ Read({1})
    \/ Write({<<65>>})
    \/ Fsync
    \/ Lseek({0})
    \/ Fstat
    \/ Unlink({Path_a, Path_b, Path_d_f})
    \/ Mkdir({Path_d, Path_dd})
    \/ Rmdir({Path_d})
    \/ Rename({<<Path_a, Path_b>>})
    \/ Stat({Path_a, Path_d})
    \/ Statvfs
    \/ Opendir({Root, Path_d})
    \/ Readdir
    \/ Closedir

Spec == Init /\ [][Next]_vars

(***************************************************************************)
(* The calls of an application that writes files of one and two pages      *)
(***************************************************************************)
InitData == Start(MaxStepsData)

NextData ==
    \/ NewFile({Path_a, Path_b}, {0, TwoPages})
    \/ Open({Path_b}, {{}})
    \/ Write({Data})
    \/ Fsync
    \/ Close
    \/ Unlink({Path_a, Path_b})

SpecData == InitData /\ [][NextData]_vars

(***************************************************************************)
(* The calls of an application that asks for files of the largest sizes    *)
(***************************************************************************)
\* the largest value of a size_t
SIZE_MAX == WORD - 1

NextSizes ==
    \/ NewFile({Path_a, Path_b}, {0, SIZE_MAX})
    \/ Stat({Path_a})
    \/ Statvfs
    \/ Unlink({Path_a})

SpecSizes == Init /\ [][NextSizes]_vars

(***************************************************************************)
(* The calls of an application that keeps files open while records are     *)
(* removed                                                                 *)
(***************************************************************************)
\* "/.xipfs_infos"
Path_infos == <<47>> \o xipfs_infos_file

InitHandles == Start(MaxStepsHandles)

NextHandles ==
    \/ Format
    \/ Mkdir({Path_d})
    \/ Open({Path_a, Path_d_f, Path_infos}, {{"O_CREAT"}, {"O_WRONLY"}})
    \/ Close
    \/ Read({1})
    \/ Write({<<65>>})
    \/ Fsync
    \/ Lseek({1})
    \/ Fstat
    \/ Unlink({Path_a})
    \/ Rmdir({Path_d})
    \/ Rename({<<Path_a, Path_d_f>>})

SpecHandles == InitHandles /\ [][NextHandles]_vars

(***************************************************************************)
(* The calls of an application that runs the programs it stores            *)
(***************************************************************************)
\* the statuses the stored programs pass to exit
Statuses == {0, 7}

\* the paths execv is called with
ExecPaths == {Path_a, Path_b, Path_d, Path_d_f}

InitExec == Start(MaxStepsExec)

NextExec ==
    \/ Mkdir({Path_d})
    \/ NewFileExec({Path_a, Path_b, Path_d_f}, {0, 1})
    \/ Open({Path_a}, {{}})
    \/ Execv(ExecPaths, Statuses)
    \/ Unlink({Path_a})

SpecExec == InitExec /\ [][NextExec]_vars

(***************************************************************************)
(* Threads.  A call of a public operation locks xipfs_mutex, runs the core *)
(* function and unlocks xipfs_mutex; xipfs_new_file and xipfs_execv first  *)
(* open, read and close .xipfs_infos through the VFS, which are three      *)
(* calls of their own.  A thread is at "lock" before mutex_lock, at "core" *)
(* between mutex_lock and the return of the core function, at "unlock"     *)
(* before mutex_unlock and at "idle" out of the driver.                    *)
(***************************************************************************)
\* the calls of the driver that the public operation goes through, in order
Wrappers(op) ==
    IF op \in {"new_file", "execv"} THEN <<"mp_open", "mp_read", "mp_close", op>> ELSE <<op>>

\* the result of a core function: the state of the driver, the directory
\* stream and the value returned
Eff(D, dirp, ret) == [d |-> D, dirp |-> dirp, ret |-> ret]

\* the core function of the wrapper w of the call c, with the file
\* descriptor fd that get_xipfs_mp got
Core0(w, c, fd, D, dirp) ==
    CASE w = "format" -> Bind(xipfs_format0(D), LAMBDA r : Eff(r.d, dirp, r.ret))
      [] w = "mount" -> Eff(D, dirp, xipfs_mount0(D.nvm))
      [] w = "open" ->
            Bind(xipfs_open0(D, c.h, c.path, {"O_CREAT"}), LAMBDA r :
                Eff(IF r.ret = "OK" THEN r.d ELSE [r.d EXCEPT !.files[c.h] = FreeFile],
                    dirp, r.ret))
      [] w = "close" ->
            Bind(xipfs_close0(D, c.h), LAMBDA r :
                Eff([r.d EXCEPT !.files[c.h] = FreeFile], dirp, r.ret))
      [] w = "read" -> Bind(xipfs_read0(D, c.h, 1), LAMBDA r : Eff(r.d, dirp, r.ret))
      [] w = "write" -> Bind(xipfs_write0(D, c.h, <<65>>), LAMBDA r : Eff(r.d, dirp, r.ret))
      [] w = "fsync" -> Bind(xipfs_fsync0(D, c.h), LAMBDA r : Eff(r.d, dirp, r.ret))
      [] w = "lseek" ->
            Bind(xipfs_lseek0(D, c.h, 0, "SEEK_SET"), LAMBDA r : Eff(r.d, dirp, r.ret))
      [] w = "fstat" -> Bind(xipfs_fstat0(D, c.h), LAMBDA r : Eff(r.d, dirp, r.ret))
      [] w = "opendir" ->
            Bind(xipfs_opendir0(D.nvm, c.path), LAMBDA r :
                Eff(D, IF r.ret = "OK" THEN r.dirp ELSE xipfs_closedir0(r.dirp), r.ret))
      [] w = "readdir" ->
            Bind(xipfs_readdir0(D.nvm, dirp), LAMBDA r : Eff(D, r.dirp, r.ret))
      [] w = "closedir" -> Eff(D, xipfs_closedir0(dirp), "OK")
      [] w = "unlink" -> Bind(xipfs_unlink0(D, c.path), LAMBDA r : Eff(r.d, dirp, r.ret))
      [] w = "mkdir" -> Bind(xipfs_mkdir0(D, c.path), LAMBDA r : Eff(r.d, dirp, r.ret))
      [] w = "rmdir" -> Bind(xipfs_rmdir0(D, c.path), LAMBDA r : Eff(r.d, dirp, r.ret))
      [] w = "rename" ->
            Bind(xipfs_rename0(D, c.path, Path_b), LAMBDA r : Eff(r.d, dirp, r.ret))
      [] w = "stat" -> Bind(xipfs_stat0(D, c.path), LAMBDA r : Eff(r.d, dirp, r.ret))
      [] w = "statvfs" -> Eff(D, dirp, xipfs_statvfs0(D.nvm).ret)
      [] w = "new_file" ->
            Bind(xipfs_new_file0(D, c.path, 0, 1), LAMBDA r : Eff(r.d, dirp, r.ret))
      [] w = "execv" -> Bind(xipfs_execv0(D, c.path, 7), LAMBDA r : Eff(r.d, dirp, r.ret))
      [] w = "mp_open" ->
            Bind(xipfs_open0(D, fd, xipfs_path_init(c.path).dirname \o xipfs_infos_file, {}),
                 LAMBDA r :
                Eff(IF r.ret = "OK" THEN r.d ELSE [r.d EXCEPT !.files[fd] = FreeFile],
                    dirp, r.ret))
      [] w = "mp_read" ->
            Bind(xipfs_read0(D, fd, sizeof_xipfs_mount_t), LAMBDA r : Eff(r.d, dirp, r.ret))
      [] w = "mp_close" ->
            Bind(xipfs_close0(D, fd), LAMBDA r :
                Eff([r.d EXCEPT !.files[fd] = FreeFile], dirp, "OK"))

\* the public operations, on "/a", on the directory "/d", on the root for
\* the directory stream and on an open file descriptor
ThreadCalls ==
    {[op |-> op, path |-> Path_a, h |-> 0] :
         op \in {"format", "mount", "unlink", "rename", "stat", "statvfs", "new_file", "execv",
                 "readdir", "closedir"}}
    \cup {[op |-> op, path |-> Path_d, h |-> 0] : op \in {"mkdir", "rmdir"}}
    \cup {[op |-> "opendir", path |-> Root, h |-> 0]}
    \cup {[op |-> op, path |-> Path_a, h |-> h] :
              op \in {"close", "read", "write", "fsync", "lseek", "fstat"}, h \in OpenHandles}
    \cup {[op |-> "open", path |-> Path_a, h |-> h] : h \in Handles \ OpenHandles}

\* the thread calls a public operation; the VFS has checked the file
\* descriptor and the directory stream it passes
Call(t) ==
    /\ ~halted /\ steps > 0
    /\ thread[t].at = "idle"
    /\ \E c \in ThreadCalls :
           /\ c.op \in {"readdir", "closedir"} => vfs_dirp # xipfs_closedir0(vfs_dirp)
           /\ c.op = "opendir" => vfs_dirp = xipfs_closedir0(vfs_dirp)
           /\ c.op = "open" => c.h = MinOf(Handles \ OpenHandles)
           /\ thread' = [thread EXCEPT ![t] = [at |-> "lock", todo |-> Wrappers(c.op),
                                               call |-> c, ret |-> "OK"]]
    /\ steps' = steps - 1
    /\ UNCHANGED <<nvm, xipfs_buf, vfs_files, vfs_open_files, vfs_dirp, last, halted,
                   xipfs_mutex>>

\* the wrapper goes on to the core function without locking xipfs_mutex
EnterUnlocked(t) ==
    /\ ~halted
    /\ thread[t].at = "lock"
    /\ thread' = [thread EXCEPT ![t].at = "core"]
    /\ UNCHANGED <<nvm, xipfs_buf, vfs_files, vfs_open_files, vfs_dirp, last, halted, steps,
                   xipfs_mutex>>

\* mutex_lock(&xipfs_mutex): the thread waits until the mutex is unlocked
Lock(t) ==
    /\ ~halted
    /\ thread[t].at = "lock"
    /\ xipfs_mutex = MUTEX_INIT
    /\ xipfs_mutex' = t
    /\ thread' = [thread EXCEPT ![t].at = "core"]
    /\ UNCHANGED <<nvm, xipfs_buf, vfs_files, vfs_open_files, vfs_dirp, last, halted, steps>>

\* vfs_open finds no free file descriptor for get_xipfs_mp: the operation
\* returns before it calls the driver
NoDescriptor(t) ==
    /\ ~halted
    /\ thread[t].at = "lock"
    /\ Head(thread[t].todo) = "mp_open"
    /\ OpenHandles = Handles
    /\ thread' = [thread EXCEPT ![t] = [Idle EXCEPT !.ret = "-ENFILE"]]
    /\ last' = [op |-> thread[t].call.op, path |-> thread[t].call.path, h |-> 0,
                ret |-> "-ENFILE", n |-> t, data |-> <<>>]
    /\ UNCHANGED <<nvm, xipfs_buf, vfs_files, vfs_open_files, vfs_dirp, halted, steps,
                   xipfs_mutex>>

\* the file descriptor get_xipfs_mp uses: the first free one when it opens
\* .xipfs_infos, the one it opened afterwards
MpFd(t) ==
    IF Head(thread[t].todo) = "mp_open" /\ OpenHandles # Handles
    THEN MinOf(Handles \ OpenHandles) ELSE thread[t].call.h

\* ret = xipfs_..0(...): the core function runs and returns
Core(t) ==
    /\ ~halted
    /\ thread[t].at = "core"
    /\ Head(thread[t].todo) = "mp_open" => OpenHandles # Handles
    /\ \E u \in Outcomes :
           \E r \in {Core0(Head(thread[t].todo), thread[t].call, MpFd(t), Cur(u), vfs_dirp)} :
               /\ nvm' = r.d.nvm
               /\ xipfs_buf' = r.d.buf
               /\ vfs_files' = r.d.files
               /\ vfs_open_files' = r.d.tab
               /\ vfs_dirp' = r.dirp
               /\ halted' = (r.d.ub = "fault")
               /\ last' = [op |-> Head(thread[t].todo), path |-> thread[t].call.path,
                           h |-> MpFd(t), ret |-> r.ret, n |-> t, data |-> <<>>]
               /\ thread' = [thread EXCEPT ![t].at = "unlock", ![t].ret = r.ret,
                                           ![t].call.h = MpFd(t)]
    /\ UNCHANGED <<steps, xipfs_mutex>>

\* mutex_unlock(&xipfs_mutex); return ret: get_xipfs_mp goes on with its
\* next call when the one made returned no error
Unlock(t) ==
    /\ ~halted
    /\ thread[t].at = "unlock"
    /\ xipfs_mutex' = MUTEX_INIT
    /\ thread' = [thread EXCEPT ![t] =
                     IF Len(thread[t].todo) > 1 /\ thread[t].ret = "OK"
                     THEN [thread[t] EXCEPT !.at = "lock", !.todo = Tail(thread[t].todo)]
                     ELSE [Idle EXCEPT !.ret = thread[t].ret]]
    /\ UNCHANGED <<nvm, xipfs_buf, vfs_files, vfs_open_files, vfs_dirp, last, halted, steps>>

InitThreads == Start(MaxStepsThreads)

NextThreads == \E t \in Threads : Call(t) \/ Lock(t) \/ NoDescriptor(t) \/ Core(t) \/ Unlock(t)

SpecThreads == InitThreads /\ [][NextThreads]_vars

(***************************************************************************)
(* The calls of an application whose execution is aborted in a flush of    *)
(* the page buffer, between the erase of the page and its program, and     *)
(* that starts again: the NVM is as the abort left it, the static data are *)
(* initialized again and the file descriptors are closed.                  *)
(***************************************************************************)
\* the state in which the k-th flush of the operation at hand is aborted
CurAbort(k) == [Cur("benign") EXCEPT !.aborts = k]

\* the operation that would have returned r is aborted, if it comes to the
\* flush chosen
Abort(op, path, h, r) ==
    /\ r.d.crash # NoCrash
    /\ nvm' = r.d.crash
    /\ xipfs_buf' = BufferKO
    /\ vfs_files' = [f \in Handles |-> FreeFile]
    /\ vfs_open_files' = [i \in 1..VFS_MAX_OPEN_FILES |-> NULL]
    /\ vfs_dirp' = xipfs_closedir0(vfs_dirp)
    /\ last' = [op |-> "abort", path |-> path, h |-> h, ret |-> op, n |-> 0, data |-> <<>>]
    /\ steps' = steps - 1
    /\ UNCHANGED <<halted, xipfs_mutex, thread>>

AbortNewFile(paths) ==
    /\ Running
    /\ \E path \in paths, k \in 1..MaxFlushes :
           Abort("new_file", path, 0, xipfs_new_file(CurAbort(k), path, 0, 0))

AbortClose ==
    /\ Running
    /\ \E h \in OpenHandles, k \in 1..MaxFlushes :
           Abort("close", <<>>, h, xipfs_close0(CurAbort(k), h))

AbortFsync ==
    /\ Running
    /\ \E h \in OpenHandles, k \in 1..MaxFlushes :
           Abort("fsync", <<>>, h, xipfs_fsync0(CurAbort(k), h))

AbortLseek(offsets) ==
    /\ Running
    /\ \E h \in OpenHandles, off \in offsets, k \in 1..MaxFlushes :
           Abort("lseek", <<>>, h, xipfs_lseek0(CurAbort(k), h, off, "SEEK_SET"))

AbortRename(pairs) ==
    /\ Running
    /\ \E pair \in pairs, k \in 1..MaxFlushes :
           Abort("rename", pair[1], 0, xipfs_rename0(CurAbort(k), pair[1], pair[2]))

InitAbort == Start(MaxStepsAbort)

NextAbort ==
    \/ NewFile({Path_a, Path_b}, {0})
    \/ Open({Path_a}, {{"O_WRONLY"}})
    \/ Write({<<65>>})
    \/ Close
    \/ Mount
    \/ AbortNewFile({Path_a, Path_b})
    \/ AbortClose
    \/ AbortFsync
    \/ AbortLseek({0})
    \/ AbortRename({<<Path_a, Path_dd>>})

SpecAbort == InitAbort /\ [][NextAbort]_vars

(***************************************************************************)
(* The calls of an application that moves in the files it writes           *)
(***************************************************************************)
\* the largest value of an off_t
OFF_MAX == WORD \div 2 - 1

\* offsets before the start, in and past the space of a file of one page
Offsets == {-1, 0, 2, 4, OFF_MAX}

InitSeek == Start(MaxStepsSeek)

NextSeek ==
    \/ Open({Path_a, Path_infos}, {{"O_CREAT"}})
    \/ Write({<<65>>})
    \/ LseekFrom(Offsets, {"SEEK_SET", "SEEK_CUR", "SEEK_END"})
    \/ Close

SpecSeek == InitSeek /\ [][NextSeek]_vars

(***************************************************************************)
(* The calls of an application that moves a directory beneath itself       *)
(***************************************************************************)
\* "/d/x", "/d/x/y"
Path_d_x == <<47, 100, 47, 120>>
Path_d_x_y == <<47, 100, 47, 120, 47, 121>>

InitRename == Start(MaxStepsRename)

NextRename ==
    \/ Mkdir({Path_d, Path_d_x})
    \/ NewFile({Path_d_f}, {0})
    \/ Rename({<<Path_d, Path_d_x>>, <<Path_d, Path_d_x_y>>, <<Path_d, Path_d_f>>,
               <<Path_d, Path_dd>>})
    \/ Unlink({Path_d_f})

SpecRename == InitRename /\ [][NextRename]_vars

(***************************************************************************)
(* The calls of an application whose execution is aborted while a file is  *)
(* removed, after a page erase or a page program of xipfs_fs_remove        *)
(***************************************************************************)
\* unlink of a file is aborted after the k-th erase or program of the
\* removal of its record
AbortUnlink(paths) ==
    /\ Running
    /\ \E path \in paths :
           /\ xipfs_path_new(nvm, path).info = XIPFS_PATH_EXISTS_AS_FILE
           /\ \E trace \in {RemoveTrace(xipfs_buffer_flush(M(Cur("benign"))).nvm,
                                        xipfs_path_new(nvm, path).witness)} :
                  \E k \in DOMAIN trace :
                      Abort("unlink", path, k, [d |-> [crash |-> trace[k]]])

InitRemove == Start(MaxStepsRemove)

NextRemove ==
    \/ NewFile({Path_a, Path_b, Path_dd}, {0, TwoPages})
    \/ Unlink({Path_a, Path_b})
    \/ AbortUnlink({Path_a, Path_b})
    \/ Mount

SpecRemove == InitRemove /\ [][NextRemove]_vars

(***************************************************************************)
(* The calls of a client of the page buffer: xipfs_buffer_read,            *)
(* xipfs_buffer_write and xipfs_buffer_flush on the pages of the mount     *)
(* point.  last.data maps every address written through xipfs_buffer_write *)
(* to the cell written last at it.                                         *)
(***************************************************************************)
\* the addresses the client starts from: a data cell in the middle and the
\* last cell of each page
BufferAddrs == {flashpage_addr(page) + o : page \in MountPages, o \in {5, 7}}

\* the cells the client writes in one call; two cells from the last cell of a
\* page end in the next page
BufferDatas == {<<65>>, <<66>>, <<65, 66>>}

\* the cell of the NVM at an address
NvmCell(mem, addr) == mem[flashpage_page(addr)][PageOffset(addr) + 1]

ReturnBuffer(op, m, ptr, ret, written) ==
    /\ nvm' = m.nvm
    /\ xipfs_buf' = m.buf
    /\ last' = [op |-> op, path |-> <<>>, h |-> ptr, ret |-> ret, n |-> 0, data |-> written]
    /\ steps' = steps - 1
    /\ UNCHANGED <<vfs_files, vfs_open_files, vfs_dirp, halted, xipfs_mutex, thread>>

BufferRead(addrs) ==
    /\ Running
    /\ \E src \in addrs :
           \E r \in {xipfs_buffer_read(M(Cur("benign")), src)} :
               ReturnBuffer("buffer_read", r.m, src, r.val, last.data)

BufferWrite(addrs, datas) ==
    /\ Running
    /\ \E dest \in addrs, src \in datas :
           /\ \A i \in 1..Len(src) : xipfs_flash_in(dest + i - 1)
           /\ ReturnBuffer("buffer_write", xipfs_buffer_write(M(Cur("benign")), dest, src),
                           dest, 0,
                           [a \in DOMAIN last.data \cup (dest..(dest + Len(src) - 1)) |->
                               IF a >= dest /\ a < dest + Len(src) THEN src[a - dest + 1]
                               ELSE last.data[a]])

BufferFlush ==
    /\ Running
    /\ ReturnBuffer("buffer_flush", xipfs_buffer_flush(M(Cur("benign"))), NULL, 0, last.data)

InitBuffer == Start(MaxStepsBuffer)

NextBuffer ==
    \/ BufferRead(BufferAddrs)
    \/ BufferWrite(BufferAddrs, BufferDatas)
    \/ BufferFlush

SpecBuffer == InitBuffer /\ [][NextBuffer]_vars

(***************************************************************************)
(* The calls of an application that makes, fills, renames and removes      *)
(* directories                                                             *)
(***************************************************************************)
InitDirs == Start(MaxStepsDirs)

NextDirs ==
    \/ Mkdir({Path_d, Path_dd})
    \/ NewFile({Path_d_f}, {0})
    \/ Rename({<<Path_d, Path_dd>>})
    \/ Rmdir({Path_d, Path_dd})
    \/ Unlink({Path_d_f})

SpecDirs == InitDirs /\ [][NextDirs]_vars

(***************************************************************************)
(* The calls of an application that gives paths that are not valid         *)
(***************************************************************************)
\* "/d/#": the last character is outside the character set
Path_d_bad == <<47, 100, 47, 35>>

\* a slash and XIPFS_PATH_MAX - 1 times 'a': XIPFS_PATH_MAX bytes
Path_long == [i \in 1..XIPFS_PATH_MAX |-> IF i = 1 THEN 47 ELSE 97]

InitInvalid == Start(MaxStepsInvalid)

NextInvalid ==
    \/ Mkdir({Path_d, Path_d_bad, Path_long})
    \/ NewFile({Path_a, Path_d_bad, Path_long}, {0})
    \/ Open({Path_d_bad, Path_long}, {{"O_CREAT"}})
    \/ Rename({<<Path_a, Path_d_bad>>, <<Path_a, Path_long>>, <<Path_d, Path_d_bad>>})

SpecInvalid == InitInvalid /\ [][NextInvalid]_vars

(***************************************************************************)
(* The calls of an application that renames a directory with an entry      *)
(***************************************************************************)
\* a slash and XIPFS_PATH_MAX - 3 times 'a': with a slash and one more
\* character the path is XIPFS_PATH_MAX bytes long
Path_t == [i \in 1..(XIPFS_PATH_MAX - 2) |-> IF i = 1 THEN 47 ELSE 97]

InitRenameAll == Start(MaxStepsRenameAll)

NextRenameAll ==
    \/ Mkdir({Path_dd})
    \/ NewFile({Path_a, Path_d_f}, {0})
    \/ Rename({<<Path_d, Path_dd>>, <<Path_dd, Path_d>>, <<Path_d, Path_t>>})

SpecRenameAll == InitRenameAll /\ [][NextRenameAll]_vars

(***************************************************************************)
(* The calls of an application that formats the mount point while it has   *)
(* written bytes through a file structure                                  *)
(***************************************************************************)
InitFormat == Start(MaxStepsFormat)

NextFormat ==
    \/ NewFile({Path_a, Path_b, Path_dd}, {0})
    \/ Open({Path_b}, {{}})
    \/ Write({<<65>>})
    \/ Format

SpecFormat == InitFormat /\ [][NextFormat]_vars

(***************************************************************************)
(* The calls of an application that writes a file after it has read it and *)
(* removed the file before it                                              *)
(***************************************************************************)
InitStale == Start(MaxStepsStale)

NextStale ==
    \/ NewFile({Path_a}, {0})
    \/ Open({Path_b}, {{"O_CREAT"}})
    \/ Read({1})
    \/ Write({<<65>>, Data})
    \/ Fsync
    \/ Unlink({Path_a})

SpecStale == InitStale /\ [][NextStale]_vars

(***************************************************************************)
(* The linked list of file records, as the NVM holds it                    *)
(***************************************************************************)
\* the address is the start of a page of the mount point
InMount(addr) ==
    /\ xipfs_flash_page_aligned(addr)
    /\ flashpage_page(addr) \in MountPages

\* the first address after the mount point
MountEnd == xipfs_mp.private_data + xipfs_mp.nbpage * FLASHPAGE_SIZE

\* the records reached from filp by following next, at most n of them
RECURSIVE RecordsFrom(_, _, _)
RecordsFrom(mem, filp, n) ==
    IF n = 0 \/ ~InMount(filp) THEN <<>>
    ELSE IF Member(mem, filp, "next") = XIPFS_FLASH_ERASE_STATE THEN <<>>
    ELSE IF Member(mem, filp, "next") = filp THEN <<filp>>
    ELSE <<filp>> \o RecordsFrom(mem, Member(mem, filp, "next"), n - 1)

\* the records reached from the first page of the mount point
Records(mem) == RecordsFrom(mem, xipfs_mp.private_data, NbPage)

\* next, reserved and the address of one record are as the list asks
WellFormedRecord(mem, f) ==
    LET next == Member(mem, f, "next")
        reserved == Member(mem, f, "reserved")
    IN  /\ next = f \/ f + reserved = next
        /\ xipfs_flash_page_aligned(f) /\ xipfs_flash_page_aligned(next)
        /\ f >= xipfs_mp.private_data /\ f < MountEnd
        /\ next >= xipfs_mp.private_data /\ next < MountEnd
        /\ reserved > 0
        /\ reserved % FLASHPAGE_SIZE = 0

WellFormedList(mem) ==
    \A i \in DOMAIN Records(mem) : WellFormedRecord(mem, Records(mem)[i])

\* C1: a public operation that succeeds on a well-formed list of records
\* leaves a well-formed list: every record reached from the head has next
\* equal to its own address or to its address plus reserved, the addresses
\* are page-aligned and inside the mount point, and reserved is a positive
\* multiple of the page size.  The list of the formatted mount point is well
\* formed, so the list is well formed after any sequence of successful
\* operations.
C1_ListWellFormed ==
    [][(~halted' /\ last'.ret = "OK" /\ WellFormedList(nvm)) => WellFormedList(nvm')]_vars

\* the pages from address addr to the end of the mount point are erased
ErasedFrom(mem, addr) ==
    \A page \in MountPages : flashpage_addr(page) >= addr => mem[page] = ErasedPage

\* the free area is erased: all the mount point when there is no record, the
\* pages from the next of a tail that is not a self-loop; nothing is asked
\* when the tail is a self-loop
FreeAreaErased(mem) ==
    LET recs == Records(mem)
        tail == recs[Len(recs)]
    IN  IF recs = <<>> THEN ErasedFrom(mem, xipfs_mp.private_data)
        ELSE IF Member(mem, tail, "next") # tail
        THEN ErasedFrom(mem, Member(mem, tail, "next"))
        ELSE TRUE

\* C2: whenever a public operation has returned, every byte from the first
\* free address to the end of the mount point is in the erased state
C2_FreeAreaErased == ~halted => FreeAreaErased(nvm)

\* C3: no two records of the list carry the same path
C3_PathsUnique ==
    ~halted =>
        \A i, j \in DOMAIN Records(nvm) :
            i # j => Member(nvm, Records(nvm)[i], "path") # Member(nvm, Records(nvm)[j], "path")

(***************************************************************************)
(* What an application sees of a file                                      *)
(***************************************************************************)
\* the driver state before and after the step, for calls in which an empty
\* slot of vfs_open_files is read harmlessly
Before == Cur("benign")
After == [nvm |-> nvm', buf |-> xipfs_buf', files |-> vfs_files', tab |-> vfs_open_files',
          ub |-> "none", u |-> "benign", aborts |-> 0, crash |-> NoCrash]

\* more bytes than a file can hold
Whole == NbPage * FLASHPAGE_SIZE

\* open(path, O_RDONLY) on the first free file structure, then read: the
\* driver state left, what the calls returned and the bytes read
ReadBack(D, path) ==
    Bind(MinOf(FreeHandles(D)), LAMBDA h :
    Bind(xipfs_open0(D, h, path, {}), LAMBDA o :
        IF o.ret # "OK" THEN [d |-> o.d, h |-> h, ret |-> o.ret, data |-> <<>>]
        ELSE Bind(xipfs_read0(o.d, h, Whole), LAMBDA r :
                 [d |-> r.d, h |-> h, ret |-> r.ret, data |-> r.data])))

\* the records of the list whose path is not path, and the one whose path it is
Others(mem, path) ==
    SelectSeq(Records(mem), LAMBDA f : PathOf(Member(mem, f, "path")) # path)
RecordOf(mem, path) ==
    CHOOSE f \in {Records(mem)[i] : i \in DOMAIN Records(mem)} :
        PathOf(Member(mem, f, "path")) = path

\* the record g of mem2 is the record f of mem1, moved or not
SameRecord(mem1, f, mem2, g) ==
    /\ Member(mem2, g, "path") = Member(mem1, f, "path")
    /\ Member(mem2, g, "reserved") = Member(mem1, f, "reserved")
    /\ Member(mem2, g, "exec") = Member(mem1, f, "exec")
    /\ xipfs_file_get_size_(Rebooted(mem2), g).size
           = xipfs_file_get_size_(Rebooted(mem1), f).size

\* C4: a successful unlink keeps every other file: the other records are
\* listed first and in the same order with the same path, reserved, size and
\* exec, the ones after the removed record are removed.reserved bytes lower,
\* and each file read through open and read gives the bytes it gave before
C4_UnlinkKeepsOthers ==
    [][(last'.op = "unlink" /\ last'.ret = "OK" /\ ~halted' /\ FreeHandles(Before) # {}) =>
           LET path == last'.path
               removed == RecordOf(nvm, path)
               before == Others(nvm, path)
               after == Records(nvm')
           IN  \A k \in DOMAIN before :
                   /\ k \in DOMAIN after
                   /\ after[k] = IF before[k] > removed
                                 THEN before[k] - Member(nvm, removed, "reserved")
                                 ELSE before[k]
                   /\ SameRecord(nvm, before[k], nvm', after[k])
                   /\ ReadBack(After, PathOf(Member(nvm, before[k], "path"))).data
                          = ReadBack(Before, PathOf(Member(nvm, before[k], "path"))).data
      ]_vars

\* the paths of the records of the list
Paths(mem) == {PathOf(Member(mem, Records(mem)[i], "path")) : i \in DOMAIN Records(mem)}

\* fsync(h) and close(h), then open(path, O_RDONLY), read and stat(path):
\* whether the calls succeeded, the bytes read and the size given by stat
RoundTrip(D, h, path) ==
    Bind(xipfs_fsync0(D, h), LAMBDA s :
    Bind(xipfs_close0(s.d, h), LAMBDA c :
    Bind(ReadBack([c.d EXCEPT !.files[h] = FreeFile], path), LAMBDA r :
        [ok |-> s.ret = "OK" /\ c.ret = "OK" /\ r.ret = "OK",
         data |-> r.data,
         size |-> xipfs_stat0(r.d, path).n])))

\* the driver states an application can be in before the fsync: it has
\* called nothing more, or it has removed one of the other files
Interleaved(D, path) ==
    {D} \cup {xipfs_unlink0(D, q).d : q \in {q \in Paths(D.nvm) \ {path} :
                                               xipfs_unlink0(D, q).ret = "OK"}}

\* the application has just written the bytes last.data from position 0 of
\* the file open on last.h
WroteFromStart ==
    /\ ~halted
    /\ last.op = "write" /\ last.ret = "OK"
    /\ last.n = Len(last.data)
    /\ vfs_files[last.h].pos = last.n

\* C5: after write(h, b) from position 0 of a file, fsync(h), close(h),
\* open(p, O_RDONLY) and read give back exactly b and stat(p) gives the size
\* len(b), also when another file is removed before the fsync
C5_RoundTrip ==
    WroteFromStart =>
        \A D \in Interleaved(Cur("benign"), PathOf(Member(nvm, vfs_files[last.h].ptr, "path"))) :
            RoundTrip(D, last.h, PathOf(Member(nvm, vfs_files[last.h].ptr, "path")))
                = [ok |-> TRUE, data |-> last.data, size |-> Len(last.data)]

\* the same without another call before the fsync
RoundTripAlone ==
    WroteFromStart =>
        RoundTrip(Cur("benign"), last.h, PathOf(Member(nvm, vfs_files[last.h].ptr, "path")))
            = [ok |-> TRUE, data |-> last.data, size |-> Len(last.data)]

\* the number of pages a file of size bytes needs
PagesFor(size) == IF size = 0 THEN 1 ELSE (size + FLASHPAGE_SIZE - 1) \div FLASHPAGE_SIZE

\* new_file(path, size, 0), then open(path, O_RDONLY) and close: all succeed
CreateOpenClose(D, path, size) ==
    Bind(xipfs_new_file(D, path, size, 0), LAMBDA n :
        /\ n.ret = "OK"
        /\ Bind(MinOf(FreeHandles(n.d)), LAMBDA h :
           Bind(xipfs_open0(n.d, h, path, {}), LAMBDA o :
               /\ o.ret = "OK"
               /\ xipfs_close0(o.d, h).ret = "OK")))

\* C6: whenever the free pages are at least the pages a size needs and the
\* path is creatable, new_file succeeds and a following open(path, O_RDONLY)
\* and close succeed
C6_NewFileFits ==
    (~halted /\ FreeHandles(Cur("benign")) # {}) =>
        \A path \in {Path_a, Path_b}, size \in {0, TwoPages} :
            (/\ xipfs_path_new(nvm, path).info = XIPFS_PATH_CREATABLE
             /\ xipfs_fs_free_pages(nvm).n >= PagesFor(size))
                => CreateOpenClose(Cur("benign"), path, size)

\* C7: a new_file that fails for lack of space (-EDQUOT) leaves the NVM as
\* it was: no record is added, removed or changed, whatever the parent
\* directory of the path is
C7_NoSpaceKeepsNvm ==
    [][(last'.op = "new_file" /\ last'.ret = "-EDQUOT" /\ ~halted') => nvm' = nvm]_vars

\* C8: unlink of the path of a file of the list succeeds, and an unlink of
\* the same path called next returns -ENOENT
C8_UnlinkTwice ==
    [][(last'.op = "unlink" /\ ~halted' /\ last'.path \in Paths(nvm)) =>
           /\ last'.ret = "OK"
           /\ xipfs_unlink0(After, last'.path).ret = "-ENOENT"]_vars

\* mount succeeds, opendir("/") and readdir give no entry, and statvfs gives
\* as many free blocks as blocks, the number of pages of the mount point
MountsEmpty(mem) ==
    /\ xipfs_mount0(mem) = "OK"
    /\ Bind(xipfs_opendir0(mem, Root), LAMBDA o :
           /\ o.ret = "OK"
           /\ Bind(xipfs_readdir0(mem, o.dirp), LAMBDA r : r.ret = "OK" /\ r.n = 0))
    /\ Bind(xipfs_statvfs0(mem), LAMBDA v :
           v.ret = "OK" /\ v.n = xipfs_mp.nbpage /\ v.data = <<xipfs_mp.nbpage>>)

\* C9: from any state format returns success, and then mount succeeds on a
\* mount point without file: readdir of "/" gives no entry and statvfs gives
\* bfree = blocks = the number of pages
C9_FormatMountsEmpty ==
    last.op = "format" => (~halted /\ last.ret = "OK" /\ MountsEmpty(nvm))

\* the same for the calls of format in which the empty slots of
\* vfs_open_files are read harmlessly
FormatReturnedMountsEmpty ==
    (last.op = "format" /\ ~halted) => (last.ret = "OK" /\ MountsEmpty(nvm))

\* the path begins with the directory path dir, which ends with a slash
Under(path, dir) == Len(path) >= Len(dir) /\ SubSeq(path, 1, Len(dir)) = dir

\* the path names the only record of the list under its parent directory,
\* which is not the root
LastEntry(mem, path) ==
    LET dir == xipfs_path_init(path).dirname
    IN  /\ dir # Root
        /\ {p \in Paths(mem) : Under(p, dir)} \in {{path}, {path \o <<47>>}}

\* C10: when unlink or rmdir removes the last entry of a directory D that is
\* not the root, the record "D/" of the empty directory is in the list
\* afterwards, whatever the other records are
C10_LastEntryLeavesSentinel ==
    [][(/\ last'.op \in {"unlink", "rmdir"} /\ last'.ret = "OK" /\ ~halted'
        /\ LastEntry(nvm, last'.path))
           => xipfs_path_init(last'.path).dirname \in Paths(nvm')]_vars

(***************************************************************************)
(* What stat and readdir tell of the files and directories                 *)
(***************************************************************************)
\* the directory dir, named without its last slash, exists: the list holds
\* its record "dir/" or a record beneath it
IsDir(mem, dir) == \E p \in Paths(mem) : Under(p, dir \o <<47>>)

\* the paths of the records that are files
FilePaths(mem) == {p \in Paths(mem) : p[Len(p)] # 47}

\* the size stored in the record of the file
StoredSize(mem, path) ==
    xipfs_file_get_size_(Rebooted(mem), RecordOf(mem, path)).size

\* stat(name) succeeds and tells a directory
StatsAsDir(D, name) ==
    Bind(xipfs_stat0(D, name), LAMBDA r : r.ret = "OK" /\ r.data[2] = S_IFDIR)

\* stat(path) succeeds and tells a regular file of the stored size
StatsAsFile(D, path) ==
    Bind(xipfs_stat0(D, path), LAMBDA r :
        r.ret = "OK" /\ r.data[2] = S_IFREG /\ r.n = StoredSize(D.nvm, path))

\* C11: stat of an existing directory, empty or not and named with or
\* without its last slash, succeeds and tells a directory (S_IFDIR); stat of
\* an existing file succeeds and tells a regular file (S_IFREG) of the
\* stored size
C11_StatKinds ==
    ~halted =>
        /\ \A dir \in {Path_d, Path_dd} :
               IsDir(nvm, dir) => /\ StatsAsDir(Cur("benign"), dir)
                                  /\ StatsAsDir(Cur("benign"), dir \o <<47>>)
        /\ \A path \in FilePaths(nvm) : StatsAsFile(Cur("benign"), path)

\* the part of C11 about the files
StatOfFiles == ~halted => \A path \in FilePaths(nvm) : StatsAsFile(Cur("benign"), path)

\* the part of C11 about the empty directories named with their last slash
StatOfEmptyDirsSlashed ==
    ~halted => \A dir \in {Path_d, Path_dd} :
                   (dir \o <<47>>) \in Paths(nvm) => StatsAsDir(Cur("benign"), dir \o <<47>>)

\* readdir called until it returns 0, at most n entries: the result of the
\* last call and the names returned
RECURSIVE ReadAll(_, _, _)
ReadAll(mem, dirp, n) ==
    Bind(xipfs_readdir0(mem, dirp), LAMBDA r :
        IF r.ret # "OK" THEN [ret |-> r.ret, names |-> <<>>]
        ELSE IF r.n = 0 THEN [ret |-> "OK", names |-> <<>>]
        ELSE IF n = 0 THEN [ret |-> "more", names |-> <<>>]
        ELSE Bind(ReadAll(mem, r.dirp, n - 1), LAMBDA t :
                 [ret |-> t.ret, names |-> <<r.d_name>> \o t.names]))

\* opendir(dir), then readdir until it returns 0
Listing(mem, dir) ==
    Bind(xipfs_opendir0(mem, dir), LAMBDA o :
        IF o.ret # "OK" THEN [ret |-> o.ret, names |-> <<>>]
        ELSE ReadAll(mem, o.dirp, NbPage))

\* the path of a directory with its last slash, a name without it
AsDir(dir) == IF dir[Len(dir)] = 47 THEN dir ELSE dir \o <<47>>
StripSlash(s) == IF s # <<>> /\ s[Len(s)] = 47 THEN SubSeq(s, 1, Len(s) - 1) ELSE s

\* the first component of the path p after the directory path d
ChildName(p, d) ==
    LET rest == SubSeq(p, Len(d) + 1, Len(p))
        slashes == {k \in DOMAIN rest : rest[k] = 47}
    IN  IF slashes = {} THEN rest ELSE SubSeq(rest, 1, MinOf(slashes) - 1)

\* the names of the immediate children of the directory, as the records
\* of the list give them
Children(mem, dir) ==
    {ChildName(p, AsDir(dir)) : p \in {q \in Paths(mem) : Under(q, AsDir(dir)) /\ q # AsDir(dir)}}

\* opendir and the calls of readdir succeed and give every child once,
\* under a name that is not empty
ListsChildren(mem, dir) ==
    Bind(Listing(mem, dir), LAMBDA l :
        /\ l.ret = "OK"
        /\ \A i \in DOMAIN l.names : l.names[i] # <<>>
        /\ {StripSlash(l.names[i]) : i \in DOMAIN l.names} = Children(mem, dir)
        /\ Len(l.names) = Cardinality(Children(mem, dir)))

\* C12: after opendir of an existing directory the calls of readdir give
\* every immediate child exactly once, each under a name that is not empty,
\* and then 0: also when the names of children begin with the same
\* character, and no entry for an empty directory
C12_ReaddirListsChildren ==
    ~halted => \A dir \in {Root, Path_d} :
                   (dir = Root \/ IsDir(nvm, dir)) => ListsChildren(nvm, dir)

\* the same for the directories named with their last slash that are not
\* empty and whose children have names beginning with different characters
ReaddirOfDistinctInitials ==
    ~halted => \A dir \in {Root, AsDir(Path_d)} :
                   (/\ Children(nvm, dir) # {}
                    /\ \A c1, c2 \in Children(nvm, dir) : c1 # c2 => c1[1] # c2[1])
                       => ListsChildren(nvm, dir)

(***************************************************************************)
(* The open files when a record is removed                                 *)
(***************************************************************************)
\* the first record of the list whose path is path
FirstRecordOf(mem, path) ==
    MinOf({f \in {Records(mem)[i] : i \in DOMAIN Records(mem)} :
              PathOf(Member(mem, f, "path")) = path})

\* the records a call removes before it consolidates: the file for unlink,
\* the record of the directory for rmdir, and the record of the empty parent
\* directory for a call that creates the first entry of the directory
RemovedBy(mem, op, path, to) ==
    LET dir == xipfs_path_init(IF op = "rename" THEN to ELSE path).dirname
        made == IF op = "rename" THEN to ELSE path
    IN  IF op = "unlink" /\ path \in Paths(mem) THEN {FirstRecordOf(mem, path)}
        ELSE IF op = "rmdir" /\ AsDir(path) \in Paths(mem)
        THEN {FirstRecordOf(mem, AsDir(path))}
        ELSE IF op \in {"open", "new_file", "mkdir", "rename"}
                /\ dir # Root /\ dir \in Paths(mem)
                /\ made \notin Paths(mem) /\ AsDir(made) \notin Paths(mem)
        THEN {FirstRecordOf(mem, dir)}
        ELSE {}

\* read, write, lseek, fstat, fsync and close on the file structure h all
\* return -EBADF
AllReturnEBADF(D, h) ==
    /\ xipfs_read0(D, h, 1).ret = "-EBADF"
    /\ xipfs_write0(D, h, <<65>>).ret = "-EBADF"
    /\ xipfs_lseek0(D, h, 0, "SEEK_SET").ret = "-EBADF"
    /\ xipfs_fstat0(D, h).ret = "-EBADF"
    /\ xipfs_fsync0(D, h).ret = "-EBADF"
    /\ xipfs_close0(D, h).ret = "-EBADF"

\* the file structures tracked before the step whose file is a record
TrackedFiles ==
    {h \in Handles : vfs_open_files_is_tracked(Before, h) /\ vfs_files[h].ptr # xipfs_infos_ptr}

\* the file structures follow the removal of the record F
HandlesFollow(F) ==
    \A h \in TrackedFiles :
        LET ptr == vfs_files[h].ptr
            was == PathOf(Member(nvm, ptr, "path"))
        IN  IF ptr = F
            THEN ~vfs_open_files_is_tracked(After, h) /\ AllReturnEBADF(After, h)
            ELSE /\ vfs_open_files_is_tracked(After, h)
                 /\ vfs_files'[h].ptr = IF ptr > F THEN ptr - Member(nvm, F, "reserved") ELSE ptr
                 /\ PathOf(Member(nvm', vfs_files'[h].ptr, "path"))
                        = IF last'.op = "rename" /\ was = last'.path THEN last'.data ELSE was

\* C13: after a call that removes a record F and consolidates, the tracked
\* file structures of the files stored above F refer to the same files at
\* their new addresses, the ones of the files stored below F are unchanged,
\* and the ones that referred to F are untracked, so that read, write, lseek,
\* fstat, fsync and close on them return -EBADF; after format no file
\* structure of the mount point is tracked
C13_HandlesFollowRemoval ==
    [][(last'.ret = "OK" /\ ~halted') =>
           /\ \A F \in RemovedBy(nvm, last'.op, last'.path, last'.data) : HandlesFollow(F)
           /\ last'.op = "format" => \A h \in Handles : ~vfs_open_files_is_tracked(After, h)
      ]_vars

\* the part of C13 about the removals
HandlesFollowRemovals ==
    [][(last'.ret = "OK" /\ ~halted') =>
           \A F \in RemovedBy(nvm, last'.op, last'.path, last'.data) : HandlesFollow(F)]_vars

\* the part of C13 about format, for the file structures of the records
FormatUntracksFiles ==
    [][(last'.op = "format" /\ last'.ret = "OK" /\ ~halted') =>
           \A h \in TrackedFiles : ~vfs_open_files_is_tracked(After, h)]_vars

(***************************************************************************)
(* The stored size of an open file                                         *)
(***************************************************************************)
\* the file structures tracked in the state whose file is a record
TrackedNow ==
    {h \in Handles : vfs_open_files_is_tracked(Cur("benign"), h)
                         /\ vfs_files[h].ptr # xipfs_infos_ptr}

\* the size stored in the record at filp when the driver state is D
SizeAt(D, filp) == xipfs_file_get_size_(M(D), filp).size

\* the call that returned r on the file structure h, made in the state D,
\* succeeded and left the stored size max(stored size before, pos)
LeavesMaxSize(D, h, r) ==
    /\ r.ret = "OK"
    /\ SizeAt(r.d, D.files[h].ptr)
           = IF SizeAt(D, D.files[h].ptr) > D.files[h].pos
             THEN SizeAt(D, D.files[h].ptr) ELSE D.files[h].pos

\* C14: close and fsync on a tracked file structure of a regular file leave
\* the stored size equal to max(stored size before, pos); neither makes the
\* stored size smaller, whatever pos is
C14_SyncKeepsSize ==
    ~halted => \A h \in TrackedNow :
                   /\ LeavesMaxSize(Cur("benign"), h, xipfs_close0(Cur("benign"), h))
                   /\ LeavesMaxSize(Cur("benign"), h, xipfs_fsync0(Cur("benign"), h))

\* the part of C14 about close
CloseKeepsSize ==
    ~halted => \A h \in TrackedNow :
                   LeavesMaxSize(Cur("benign"), h, xipfs_close0(Cur("benign"), h))

\* the part of C14 about fsync, when pos is not below the stored size
FsyncKeepsSizeFromEnd ==
    ~halted => \A h \in TrackedNow :
                   vfs_files[h].pos >= SizeAt(Cur("benign"), vfs_files[h].ptr)
                       => LeavesMaxSize(Cur("benign"), h, xipfs_fsync0(Cur("benign"), h))

(***************************************************************************)
(* The virtual file .xipfs_infos                                           *)
(***************************************************************************)
\* open of .xipfs_infos for writing is refused with -EACCES
InfosOpensReadOnly(D) ==
    \A path \in {Path_infos, AsDir(Path_d) \o xipfs_infos_file} :
        \A flags \in {{"O_WRONLY"}, {"O_RDWR"}, {"O_APPEND"}, {"O_WRONLY", "O_CREAT"},
                      {"O_RDWR", "O_APPEND"}} :
            \A h \in Handles : xipfs_open0(D, h, path, flags).ret = "-EACCES"

\* the step is a call on a tracked file structure opened on .xipfs_infos
OnInfos ==
    /\ last'.op \in {"read", "write", "lseek", "fsync", "fstat", "close"}
    /\ vfs_open_files_is_tracked(Before, last'.h)
    /\ vfs_files[last'.h].ptr = xipfs_infos_ptr

ExecOf(mem, path) == Member(mem, FirstRecordOf(mem, path), "exec")

\* no record is the path, lies beneath it or is a file it lies beneath
Missing(mem, path) ==
    \A p \in Paths(mem) : /\ p # path
                          /\ ~Under(p, path \o <<47>>)
                          /\ ~(p[Len(p)] # 47 /\ Under(path, p \o <<47>>))

\* the program of the file called has been branched to
Executed(l) == l.op = "execv" /\ l.data # <<>>

\* what xipfs_execv0 answers in the state reached, and whether it branches
\* to the program of the file
Gated(path, r) ==
    /\ r.data # <<>> => path \in FilePaths(nvm) /\ ExecOf(nvm, path) = 1
    /\ (path \in FilePaths(nvm) /\ ExecOf(nvm, path) = 0) => r.ret = "-EACCES" /\ r.data = <<>>
    /\ IsDir(nvm, path) => r.ret = "-EISDIR" /\ r.data = <<>>
    /\ Missing(nvm, path) => r.ret = "-ENOENT" /\ r.data = <<>>

\* C16: execv branches to the entry point of a file only if the path is a
\* regular file whose member exec is 1; for a file whose exec is 0 it returns
\* EACCES, for a directory EISDIR and for a missing path ENOENT, and in these
\* cases nothing is executed.
C16_ExecvGating ==
    \A path \in ExecPaths, status \in Statuses :
        Gated(path, xipfs_execv0(Cur("benign"), path, status))

\* a program has run, in a mount point that also holds a file that is not
\* executable and a directory
C16_ProgramRan ==
    /\ Executed(last)
    /\ \E p \in FilePaths(nvm) : ExecOf(nvm, p) = 0
    /\ IsDir(nvm, Path_d)

\* C17: execv of an executable file returns the status its program passed to
\* exit
C17_ExecvReturnsStatus == Executed(last) => last.n = last.data[1]

\* execv of an executable file returns 0 whatever the status
ExecvReturnsZero == Executed(last) => last.ret = "OK" /\ last.n = 0

(***************************************************************************)
(* Serialization of the calls                                              *)
(***************************************************************************)
\* the thread is in the core function of an operation
InCore(t) == thread[t].at = "core"

\* C18: with several threads calling the driver, the core function of every
\* public operation runs while the thread holds xipfs_mutex, so no two
\* threads are in a core function together, and a thread that has returned
\* from an operation, or waits to enter one, does not hold the mutex.
C18_Serialized ==
    /\ \A t \in Threads : thread[t].at \in {"core", "unlock"} => xipfs_mutex = t
    /\ \A t1, t2 \in Threads : InCore(t1) /\ InCore(t2) => t1 = t2
    /\ \A t \in Threads : thread[t].at \in {"idle", "lock"} => xipfs_mutex # t

\* a thread is in the core function of new_file or execv while another
\* one, which has called an operation, waits for the mutex
C18_OneWaits ==
    \E t1, t2 \in Threads :
        /\ InCore(t1) /\ Head(thread[t1].todo) \in {"new_file", "execv"}
        /\ thread[t2].at = "lock"

(***************************************************************************)
(* Aborted operations                                                      *)
(***************************************************************************)
\* the layout invariants: the list of records is well linked from the base
\* and the pages past its tail are erased
Layout(mem) == WellFormedList(mem) /\ FreeAreaErased(mem)

\* the NVM holds a layout that mounts
Mountable(mem) == Layout(mem) /\ xipfs_mount0(mem) = "OK"

\* C19: an execution aborted in new_file, close, fsync, lseek or rename
\* between the erase of a page and its program by a flush of the page
\* buffer leaves an NVM that satisfies the layout invariants and that mount
\* accepts, when the NVM did before the operation.
C19_AbortKeepsLayout ==
    [][(last'.op = "abort" /\ Mountable(nvm)) => Mountable(nvm')]_vars

\* an abort before the program of the first page of a new file, which the
\* erase leaves as it was, keeps the layout
AbortOfNewFileKeepsLayout ==
    [][(last'.op = "abort" /\ last'.ret = "new_file" /\ Mountable(nvm)) => Mountable(nvm')]_vars

\* an abort leaves a list that is well linked, if shorter
AbortKeepsListLinked ==
    [][(last'.op = "abort" /\ Mountable(nvm)) => WellFormedList(nvm')]_vars

(***************************************************************************)
(* Moving in a file                                                        *)
(***************************************************************************)
\* the largest position of the file structure: that of the record, or the
\* size of the virtual file
MaxPosOf(D, h) ==
    IF D.files[h].ptr = xipfs_infos_ptr THEN sizeof_xipfs_mount_t
    ELSE Member(D.nvm, D.files[h].ptr, "reserved") - sizeof_xipfs_file_t

\* the size stored for the file of the file structure
SizeOf(D, h) ==
    IF D.files[h].ptr = xipfs_infos_ptr THEN sizeof_xipfs_mount_t
    ELSE SizeAt(D, D.files[h].ptr)

\* the position computed from the offset and the origin
Computed(D, h, off, whence) ==
    CASE whence = "SEEK_SET" -> off
      [] whence = "SEEK_CUR" -> D.files[h].pos + off
      [] whence = "SEEK_END" ->
            (IF D.files[h].pos > SizeOf(D, h) THEN D.files[h].pos ELSE SizeOf(D, h)) + off

\* what the call lseek(h, off, whence) made in the state D and that left the
\* state E has to return and to leave
Seeks(D, E, h, off, whence, l) ==
    LET new_pos == Computed(D, h, off, whence)
    IN  IF new_pos < 0 \/ new_pos > MaxPosOf(D, h)
        THEN /\ l.ret = "-EINVAL"
             /\ E.files[h].pos = D.files[h].pos
             /\ SizeOf(E, h) = SizeOf(D, h)
             /\ E.nvm = D.nvm
        ELSE /\ l.ret = "OK" /\ l.n = new_pos
             /\ E.files[h].pos = new_pos
             /\ (D.files[h].pos > SizeOf(D, h) /\ new_pos < D.files[h].pos)
                    => SizeOf(E, h) = D.files[h].pos

\* C20: lseek on a tracked file structure returns EINVAL and leaves the
\* position and the stored size unchanged when the position computed from the
\* offset and the origin is negative or greater than max_pos; otherwise it
\* sets the position to the computed one, after it has committed the old
\* position as the stored size when the old position exceeded the stored
\* size and the new position is smaller.
C20_LseekBounds ==
    [][(last'.op = "lseek" /\ vfs_open_files_is_tracked(Before, last'.h)) =>
          Seeks(Before, After, last'.h, last'.data[1], last'.data[2], last')]_vars

\* a seek backwards from a position past the stored size has committed the
\* size, and the next seek past max_pos has been refused
C20_CommittedThenRefused ==
    /\ last.op = "lseek" /\ last.ret = "-EINVAL"
    /\ vfs_files[last.h].ptr # xipfs_infos_ptr
    /\ vfs_open_files_is_tracked(Before, last.h)
    /\ SizeOf(Before, last.h) = 1 /\ vfs_files[last.h].pos = 0

(***************************************************************************)
(* Moving a directory beneath itself                                       *)
(***************************************************************************)
\* the call rename(from, to) that has returned was made on a directory and a
\* path beneath it
RenamedBeneath ==
    /\ last'.op = "rename" /\ ~halted'
    /\ IsDir(nvm, last'.path)
    /\ Under(last'.data, last'.path \o <<47>>) /\ last'.data # last'.path \o <<47>>

\* C21: rename(from, to) of an existing directory, empty or not, to a path
\* beneath it, whether the components between them exist or not, returns
\* EINVAL and changes no record.
C21_RenameBeneathEinval ==
    [][RenamedBeneath => last'.ret = "-EINVAL" /\ nvm' = nvm]_vars

\* rename of a directory to a path beneath it changes no record
RenameBeneathKeepsRecords == [][RenamedBeneath => last'.ret # "OK" /\ nvm' = nvm]_vars

\* rename of a directory to a path beneath it that is no record and whose
\* parent directory exists returns EINVAL
RenameBeneathCreatable ==
    [][(RenamedBeneath /\ Missing(nvm, last'.data)
           /\ IsDir(nvm, StripSlash(xipfs_path_init(last'.data).dirname)))
          => last'.ret = "-EINVAL"]_vars

(***************************************************************************)
(* The space reserved for a new file                                       *)
(***************************************************************************)
\* max(PAGE_SIZE, ceil(s / PAGE_SIZE) * PAGE_SIZE) on unbounded integers
ReservedFor(s) ==
    IF s = 0 THEN FLASHPAGE_SIZE
    ELSE ((s + FLASHPAGE_SIZE - 1) \div FLASHPAGE_SIZE) * FLASHPAGE_SIZE

\* new_file(path, s, 0) made in the state reached on a path that can be
\* created fails for lack of space or creates a record that reserves
\* ReservedFor(s)
Reserves(path, s) ==
    LET r == xipfs_new_file0(Cur("benign"), path, s, 0)
    IN  xipfs_path_new(nvm, path).info = XIPFS_PATH_CREATABLE =>
            \/ r.ret = "-EDQUOT" /\ r.d.nvm = nvm
            \/ /\ r.ret = "OK"
               /\ path \in Paths(r.d.nvm)
               /\ Member(r.d.nvm, RecordOf(r.d.nvm, path), "reserved") = ReservedFor(s)

\* C22: for every size s of a size_t, new_file fails with a no-space error
\* or creates a record whose reserved is max(PAGE_SIZE, ceil(s / PAGE_SIZE)
\* * PAGE_SIZE) computed without wrap-around: never a record whose reserved
\* is 0 or smaller than s.
C22_ReservedRounded ==
    ~halted => \A path \in {Path_a, Path_b} :
                   \A s \in {0, 1, FLASHPAGE_SIZE, TwoPages, TooManyPages,
                              SIZE_MAX - FLASHPAGE_SIZE + 1, SIZE_MAX - FLASHPAGE_SIZE + 2,
                              SIZE_MAX} :
                       Reserves(path, s)

\* for the sizes whose rounding does not exceed a size_t
ReservedRoundedNoWrap ==
    ~halted => \A path \in {Path_a, Path_b} :
                   \A s \in {0, 1, FLASHPAGE_SIZE, TwoPages, TooManyPages,
                              SIZE_MAX - FLASHPAGE_SIZE + 1} :
                       Reserves(path, s)

(***************************************************************************)
(* The tail of a full file system                                          *)
(***************************************************************************)
\* the last record of the list, and whether its next is the record itself
TailOf(mem) == Records(mem)[Len(Records(mem))]
TailLoops(mem) == Records(mem) # <<>> /\ Member(mem, TailOf(mem), "next") = TailOf(mem)

\* the file system has no free page
Full(mem) == xipfs_fs_free_pages(mem).n = 0

\* the tail is a self-loop exactly when no page is free
SelfLoopIffFull(mem) == Records(mem) # <<>> => (TailLoops(mem) <=> Full(mem))

\* the call that has returned created a file
Created == last'.op = "new_file" /\ last'.ret = "OK" /\ ~halted'

\* the call that has returned removed a file by its path
Unlinked == last'.op = "unlink" /\ last'.ret = "OK" /\ ~halted'

\* C23: the next of the tail record is the tail itself if and only if no page
\* is free; a file created with as many pages as are free becomes the
\* self-looping tail, and the removal of a file from a full file system
\* leaves a tail that is not a self-loop.
C23_SelfLoopMeansFull ==
    [][/\ ~halted' => SelfLoopIffFull(nvm')
       /\ (Created /\ SelfLoopIffFull(nvm) /\ Full(nvm')) =>
              /\ TailLoops(nvm')
              /\ PathOf(Member(nvm', TailOf(nvm'), "path")) = last'.path
       /\ (Unlinked /\ SelfLoopIffFull(nvm) /\ Full(nvm)) => ~TailLoops(nvm')]_vars

\* a file created with as many pages as are free becomes the self-looping
\* tail
FillingMakesSelfLoop ==
    [][(Created /\ SelfLoopIffFull(nvm) /\ Full(nvm')) =>
          /\ TailLoops(nvm')
          /\ PathOf(Member(nvm', TailOf(nvm'), "path")) = last'.path]_vars

\* the removal of the self-looping tail itself leaves a tail that is not a
\* self-loop
RemovalOfTailOpensLoop ==
    [][(Unlinked /\ Full(nvm) /\ TailLoops(nvm)
           /\ PathOf(Member(nvm, TailOf(nvm), "path")) = last'.path
           /\ Cardinality({i \in DOMAIN Records(nvm) :
                  PathOf(Member(nvm, Records(nvm)[i], "path")) = last'.path}) = 1)
          => ~TailLoops(nvm')]_vars

(***************************************************************************)
(* The slots of the sizes of a file                                        *)
(***************************************************************************)
\* the slots of the record at filp that are in the erase state
ErasedSlots(mem, filp) ==
    {i \in 0..(XIPFS_FILESIZE_SLOT_MAX - 1) :
        Slot(Member(mem, filp, "size"), i) = XIPFS_FLASH_ERASE_STATE}

\* the slots of the record at filp that differ between mem1 and mem2
ChangedSlots(mem1, mem2, filp) ==
    {i \in 0..(XIPFS_FILESIZE_SLOT_MAX - 1) :
        Slot(Member(mem1, filp, "size"), i) # Slot(Member(mem2, filp, "size"), i)}

\* xipfs_file_set_size(filp, size) made in the state reached writes the first
\* slot in the erase state and no other one
FillsFirstErasedSlot(filp, size) ==
    LET r == xipfs_file_set_size(M(Cur("benign")), filp, size)
    IN  (xipfs_file_filp_check(nvm, filp) = "XIPFS_OK" /\ ErasedSlots(nvm, filp) # {}) =>
            /\ r.ret = 0
            /\ ChangedSlots(nvm, r.m.nvm, filp) = {MinOf(ErasedSlots(nvm, filp))}
            /\ Slot(Member(r.m.nvm, filp, "size"), MinOf(ErasedSlots(nvm, filp))) = size

\* C24: xipfs_file_set_size writes the new size into the first slot of size[]
\* that is in the erase state and never overwrites a slot that holds a
\* value, as long as a slot is left, so that successive changes of the size
\* go to distinct slots.
C24_SizeSlotsAppendOnly ==
    ~halted => \A i \in DOMAIN Records(nvm) : \A size \in {2, 3} :
                   FillsFirstErasedSlot(Records(nvm)[i], size)

\* the first size set for a file goes to the slot 0, and every later one
\* goes there as well
SizeAlwaysInSlotZero ==
    ~halted => \A i \in DOMAIN Records(nvm) :
                   LET filp == Records(nvm)[i]
                       r == xipfs_file_set_size(M(Cur("benign")), filp, 2)
                   IN  xipfs_file_filp_check(nvm, filp) = "XIPFS_OK" =>
                           /\ r.ret = 0
                           /\ ChangedSlots(nvm, r.m.nvm, filp) \subseteq {0}
                           /\ Slot(Member(r.m.nvm, filp, "size"), 0) = 2

(***************************************************************************)
(* The steps of a removal                                                  *)
(***************************************************************************)
\* the removal of the file last'.path has been aborted after one of its
\* erases or programs, in a file system that mounted
RemovalAborted == last'.op = "abort" /\ last'.ret = "unlink" /\ Mountable(nvm)

\* C25: after each page erase and each page program of xipfs_fs_remove the
\* list that starts at the base is well linked, and every file listed before
\* the removal, other than the removed one, is reached from the head.
C25_RemovalStepsValid ==
    [][RemovalAborted => /\ WellFormedList(nvm')
                         /\ \A p \in Paths(nvm) \ {last'.path} : p \in Paths(nvm')]_vars

\* the files listed before the removed one are reached after every step
RemovalStepsKeepEarlierFiles ==
    [][RemovalAborted =>
          \A i \in DOMAIN Records(nvm) :
              Records(nvm)[i] < RecordOf(nvm, last'.path)
                  => PathOf(Member(nvm, Records(nvm)[i], "path")) \in Paths(nvm')]_vars

\* the steps end in the NVM that xipfs_fs_remove leaves
RemovalStepsEnd ==
    ~halted =>
        \A i \in DOMAIN Records(nvm) :
            LET trace == RemoveTrace(nvm, Records(nvm)[i])
            IN  trace # <<>> => trace[Len(trace)] = xipfs_fs_remove(nvm, Records(nvm)[i]).mem

(***************************************************************************)
(* The page buffer                                                         *)
(***************************************************************************)
\* the page staged is a page of the NVM, named by its number and its address
OnePageStaged ==
    xipfs_buf.state = "XIPFS_BUFFER_OK" =>
        /\ xipfs_buf.page_num \in MountPages
        /\ xipfs_buf.page_addr = flashpage_addr(xipfs_buf.page_num)

\* the address lies in the page staged
Staged(addr) ==
    xipfs_buf.state = "XIPFS_BUFFER_OK" /\ flashpage_page(addr) = xipfs_buf.page_num

\* C26: at most one page is staged, and when a buffered read or write that
\* touches a page B has returned, every cell written through
\* xipfs_buffer_write in another page A is programmed in the NVM (the cells
\* written in the page staged are in the buffer).
C26_OtherPagesProgrammed ==
    last.op \in {"buffer_read", "buffer_write", "buffer_flush"} =>
        /\ OnePageStaged
        /\ \A addr \in DOMAIN last.data :
               IF Staged(addr)
               THEN xipfs_buf.buf[PageOffset(addr) + 1] = last.data[addr]
               ELSE NvmCell(nvm, addr) = last.data[addr]

\* a read of page B returned after a write in page A that was not flushed by
\* the client, and the cell written in A is in the NVM
C26_ReadOfOtherPageFlushed ==
    /\ last.op = "buffer_read"
    /\ Staged(last.h)
    /\ \E addr \in DOMAIN last.data :
           /\ ~Staged(addr)
           /\ NvmCell(nvm, addr) = last.data[addr]
           /\ NvmCell(nvm, addr) # ErasedPage[PageOffset(addr) + 1]

\* the operations that change the content of a file or the file records
Mutations ==
    {"write", "fsync", "close", "lseek", "new_file", "open", "mkdir", "unlink", "rmdir",
     "rename"}

\* the page buffer stages a page that differs from the NVM
Unflushed == xipfs_buffer_need_flush([nvm |-> nvm, buf |-> xipfs_buf])

\* C27: when write, fsync, close, lseek, new_file, open, mkdir, unlink, rmdir
\* or rename has returned, the page buffer holds no byte that differs from
\* the NVM.
C27_MutationsFlushed == (last.op \in Mutations /\ ~halted) => ~Unflushed

\* new_file and mkdir, which end in the flush of xipfs_fs_new_file, return
\* with the buffer flushed
CreationsFlushed ==
    (last.op \in {"new_file", "mkdir"} /\ last.ret = "OK" /\ ~halted) => ~Unflushed

\* C28: after xipfs_buffer_flush has returned 0 the page buffer is empty,
\* whether the page staged differed from the NVM or not.
C28_FlushEmpties ==
    (last.op = "buffer_flush" /\ last.ret = 0) => xipfs_buf.state = "XIPFS_BUFFER_KO"

\* a flush of a staged page that differs from the NVM programs it and empties
\* the buffer; any other flush leaves the buffer and the NVM as they are
FlushEmptiesWhenDifferent ==
    [][last'.op = "buffer_flush" =>
          IF Unflushed
          THEN /\ xipfs_buf'.state = "XIPFS_BUFFER_KO"
               /\ nvm'[xipfs_buf.page_num] = xipfs_buf.buf
          ELSE xipfs_buf' = xipfs_buf /\ nvm' = nvm]_vars

\* C29: after umount has returned the page buffer is flushed and empty: the
\* bytes written before are programmed in the NVM.
C29_UmountFlushes ==
    last.op = "umount" => (~Unflushed /\ xipfs_buf.state = "XIPFS_BUFFER_KO")

\* umount returns 0 and leaves the page buffer and the NVM as they are
UmountChangesNothing ==
    [][last'.op = "umount" =>
          (last'.ret = "OK" /\ xipfs_buf' = xipfs_buf /\ nvm' = nvm)]_vars

(***************************************************************************)
(* The classification of a path that is not present                        *)
(***************************************************************************)
\* "/dd/f"
Path_dd_f == <<47, 100, 100, 47, 102>>

\* the paths classified: under the root, under a directory with a name of
\* one character, under a directory with a longer name, and two levels down
ProbePaths == {Path_a, Path_dd, Path_d_f, Path_dd_f, Path_d_x_y}

\* the parent directories of a path other than the root
Ancestors(path) == {SubSeq(path, 1, i - 1) : i \in {j \in 2..Len(path) : path[j] = 47}}

\* the path is that of a file or of a directory of the list
Present(mem, path) == path \in Paths(mem) \/ IsDir(mem, path)

\* a parent directory of the path is neither a directory nor a file of the
\* list, and none is a file
ParentNotFound(mem, path) ==
    /\ \E dir \in Ancestors(path) : ~Present(mem, dir)
    /\ \A dir \in Ancestors(path) : dir \notin Paths(mem)

ClassifiedRight(mem, path) ==
    LET info == xipfs_path_new(mem, path).info
    IN  /\ info = XIPFS_PATH_CREATABLE
            => (~Present(mem, path) /\ \A dir \in Ancestors(path) : IsDir(mem, dir))
        /\ ParentNotFound(mem, path) => info = XIPFS_PATH_INVALID_BECAUSE_NOT_FOUND

\* C30: xipfs_path_new classifies a path as CREATABLE only if it is not
\* present and every parent directory exists, and as
\* INVALID_BECAUSE_NOT_FOUND when a parent directory does not exist, on every
\* list of files, the empty one included.
C30_CreatableHasParents ==
    (~halted /\ WellFormedList(nvm)) => \A path \in ProbePaths : ClassifiedRight(nvm, path)

\* on a list that is not empty the classification is as stated
CreatableHasParentsUnlessEmpty ==
    (~halted /\ WellFormedList(nvm) /\ Records(nvm) # <<>>)
        => \A path \in ProbePaths : ClassifiedRight(nvm, path)

\* on the empty list a path under a directory whose name has one character
\* is CREATABLE, a path under a directory with a longer name is not
CreatableOnEmptyList ==
    (~halted /\ Records(nvm) = <<>> /\ xipfs_fs_head(nvm).errno = "XIPFS_OK")
        => /\ xipfs_path_new(nvm, Path_a).info = XIPFS_PATH_CREATABLE
           /\ xipfs_path_new(nvm, Path_d_f).info = XIPFS_PATH_CREATABLE
           /\ xipfs_path_new(nvm, Path_dd_f).info = XIPFS_PATH_INVALID_BECAUSE_NOT_FOUND
           /\ xipfs_path_new(nvm, Path_d_x_y).info = XIPFS_PATH_INVALID_BECAUSE_NOT_FOUND

(***************************************************************************)
(* The classification of an empty directory                                *)
(***************************************************************************)
\* the directories classified
ProbeDirs == {Path_d, Path_dd, Path_d_x}

\* the records of the list whose path begins with the path of the directory
RecordsUnder(mem, dir) ==
    {i \in DOMAIN Records(mem) :
        Under(PathOf(Member(mem, Records(mem)[i], "path")), dir \o <<47>>)}

\* a record stores the path of the directory with a slash, and no record
\* stores a longer path that begins with it
OnlySentinel(mem, dir) ==
    /\ RecordsUnder(mem, dir) # {}
    /\ \A i \in RecordsUnder(mem, dir) :
           PathOf(Member(mem, Records(mem)[i], "path")) = dir \o <<47>>

\* C31: a path is classified EXISTS_AS_EMPTY_DIR only when one record stores
\* it with a trailing slash and no other record begins with it, wherever the
\* records are in the list; rmdir succeeds on no directory that has an entry.
C31_EmptyDirIsEmpty ==
    ~halted =>
        \A dir \in ProbeDirs :
            /\ xipfs_path_new(nvm, dir).info = XIPFS_PATH_EXISTS_AS_EMPTY_DIR
                   => OnlySentinel(nvm, dir)
            /\ xipfs_rmdir0(Cur("benign"), dir).ret = "OK" => OnlySentinel(nvm, dir)

\* a path is classified EXISTS_AS_EMPTY_DIR only when the first record whose
\* path begins with it stores it with a trailing slash
EmptyDirBySentinelFirst ==
    ~halted =>
        \A dir \in ProbeDirs :
            xipfs_path_new(nvm, dir).info = XIPFS_PATH_EXISTS_AS_EMPTY_DIR
                => /\ RecordsUnder(nvm, dir) # {}
                   /\ \A i \in RecordsUnder(nvm, dir) :
                          (\A k \in RecordsUnder(nvm, dir) : i <= k)
                              => PathOf(Member(nvm, Records(nvm)[i], "path")) = dir \o <<47>>

(***************************************************************************)
(* Paths that are not valid                                                *)
(***************************************************************************)
\* the path holds a character outside the character set or is
\* XIPFS_PATH_MAX bytes long or more
InvalidPath(path) ==
    \/ Len(path) >= XIPFS_PATH_MAX
    \/ \E i \in DOMAIN path : ~xipfs_file_path_charset_check(path[i])

\* new_file, open with O_CREAT, mkdir or rename is given a path that is not
\* valid (for rename the new path)
GivenInvalid ==
    \/ last'.op \in {"new_file", "open", "mkdir"} /\ InvalidPath(last'.path)
    \/ last'.op = "rename" /\ InvalidPath(last'.data)

\* C32: new_file, open with O_CREAT, mkdir and rename given a path with a
\* character outside the character set, or of XIPFS_PATH_MAX bytes or more,
\* fail and leave the NVM as it is: no record, the record of the empty
\* parent directory included, is added, removed or changed.
C32_InvalidPathKeepsNvm ==
    [][(GivenInvalid /\ ~halted') => (last'.ret # "OK" /\ nvm' = nvm)]_vars

\* the calls fail
InvalidPathFails == [][(GivenInvalid /\ ~halted') => last'.ret # "OK"]_vars

\* the calls given a path of XIPFS_PATH_MAX bytes or more leave the NVM as
\* it is, and so do all of them when the parent directory is the root or has
\* an entry
InvalidPathKeepsNvmUnlessSentinel ==
    [][(GivenInvalid /\ ~halted')
          => \/ nvm' = nvm
             \/ /\ last'.op \in {"new_file", "open", "mkdir"}
                /\ Len(last'.path) < XIPFS_PATH_MAX
                /\ xipfs_path_init(last'.path).dirname \in Paths(nvm)]_vars

(***************************************************************************)
(* The rename of a directory that has entries                              *)
(***************************************************************************)
\* rename has returned success for a directory with entries and a new path
\* that was creatable or an empty directory
DirectoryRenamed ==
    /\ last'.op = "rename" /\ last'.ret = "OK" /\ ~halted'
    /\ WellFormedList(nvm)
    /\ xipfs_path_new(nvm, last'.path).info = XIPFS_PATH_EXISTS_AS_NONEMPTY_DIR
    /\ xipfs_path_new(nvm, last'.data).info
           \in {XIPFS_PATH_CREATABLE, XIPFS_PATH_EXISTS_AS_EMPTY_DIR}

\* the record g of mem2 holds what the record f of mem1 held, under the path
SameContent(mem1, f, mem2, g, path) ==
    /\ PathOf(Member(mem2, g, "path")) = path
    /\ Member(mem2, g, "reserved") = Member(mem1, f, "reserved")
    /\ Member(mem2, g, "exec") = Member(mem1, f, "exec")
    /\ xipfs_file_get_size_(Rebooted(mem2), g).size
           = xipfs_file_get_size_(Rebooted(mem1), f).size
    /\ \A o \in sizeof_xipfs_file_t..(FLASHPAGE_SIZE - 1) :
           mem2[flashpage_page(g)][o + 1] = mem1[flashpage_page(f)][o + 1]

\* every record D/x is found as T/x with the same content
EntriesMoved(from, to) ==
    \A i \in RecordsUnder(nvm, from) :
        LET f == Records(nvm)[i]
            fp == PathOf(Member(nvm, f, "path"))
            path == to \o SubSeq(fp, Len(from) + 1, Len(fp))
        IN  \E k \in DOMAIN Records(nvm') : SameContent(nvm, f, nvm', Records(nvm')[k], path)

\* the records that are not under D keep their paths
OthersKeepPaths(from) ==
    \A i \in DOMAIN Records(nvm) \ RecordsUnder(nvm, from) :
        PathOf(Member(nvm, Records(nvm)[i], "path")) \in Paths(nvm')

\* C33: after a successful rename of a directory D with entries onto a
\* creatable path or an empty directory T, every record D/x is a record T/x
\* with the whole path and the same content, no record begins with D/, and
\* the other records keep their paths.
C33_RenameMovesEntries ==
    [][DirectoryRenamed => /\ EntriesMoved(last'.path, last'.data)
                           /\ RecordsUnder(nvm', last'.path) = {}
                           /\ OthersKeepPaths(last'.path)]_vars

\* it is so when the new paths are shorter than XIPFS_PATH_MAX
RenameMovesEntriesThatFit ==
    [][(DirectoryRenamed /\ Len(last'.data) < XIPFS_PATH_MAX - 3)
          => /\ EntriesMoved(last'.path, last'.data)
             /\ RecordsUnder(nvm', last'.path) = {}
             /\ OthersKeepPaths(last'.path)]_vars

(***************************************************************************)
(* The page staged and the operations that change the NVM directly         *)
(***************************************************************************)
\* unlink, rmdir or format has returned success; they change the NVM with
\* the flash primitives of xipfs_fs_remove, xipfs_file_erase and
\* xipfs_fs_format
ChangedDirectly ==
    last'.op \in {"unlink", "rmdir", "format"} /\ last'.ret = "OK" /\ ~halted'

\* C34: a staged byte differs from the NVM only if it was written through
\* xipfs_buffer_write since the page was loaded: unlink, rmdir and format,
\* called while the buffer holds no byte that differs from the NVM, leave no
\* staged copy that differs from the page they changed.
C34_NoStaleStagedPage ==
    [][(ChangedDirectly /\ ~Unflushed) => ~Unflushed']_vars

\* they leave none when they are called with the buffer empty
NoStaleStagedPageFromEmpty ==
    [][(ChangedDirectly /\ xipfs_buf.state = "XIPFS_BUFFER_KO") => ~Unflushed']_vars

\* a staged page that differs from the NVM after them is the page that was
\* staged before, as it was before
StalePageIsOldPage ==
    [][(ChangedDirectly /\ ~Unflushed /\ Unflushed')
          => (xipfs_buf' = xipfs_buf /\ xipfs_buf.buf = nvm[xipfs_buf.page_num])]_vars

(***************************************************************************)
(* The files listed after a format                                         *)
(***************************************************************************)
\* the paths a call may add to the list: the path it creates
CreatedBy(call) ==
    IF call.op \in {"new_file", "open"} THEN {call.path}
    ELSE IF call.op = "mkdir" THEN {call.path \o <<47>>}
    ELSE {}

\* every page of the mount point is erased
AllErased(mem) == \A page \in MountPages : mem[page] = ErasedPage

\* C35: after a successful format, whatever the page buffer staged, no file
\* of before is listed again: the format leaves no file and every page
\* erased, and from then on a call lists no file but the one it creates and
\* leaves erased the pages that belong to no file.
C35_FormatForgets ==
    [][~halted' =>
          /\ (last'.op = "format" /\ last'.ret = "OK") => AllErased(nvm')
          /\ Paths(nvm') \subseteq Paths(nvm) \cup CreatedBy(last')
          /\ FreeAreaErased(nvm) => FreeAreaErased(nvm')]_vars

\* when format returns every page is erased and no file is listed
FormatErases ==
    (last.op = "format" /\ last.ret = "OK" /\ ~halted)
        => (AllErased(nvm) /\ Records(nvm) = <<>>)

\* format leaves the page buffer as it was
FormatKeepsBuffer ==
    [][(last'.op = "format" /\ last'.ret = "OK" /\ ~halted') => xipfs_buf' = xipfs_buf]_vars

(***************************************************************************)
(* Mount after operations that succeeded                                   *)
(***************************************************************************)
\* an operation has returned success on an NVM that mount accepted
SucceededOnMounted ==
    last'.ret = "OK" /\ ~halted' /\ xipfs_mount0(nvm) = "OK"

\* C36: mount succeeds on every NVM reached from a formatted mount point by
\* operations that returned success, a full file system whose tail is a
\* self-loop included.
C36_MountAfterSuccess ==
    [][SucceededOnMounted => xipfs_mount0(nvm') = "OK"]_vars

\* mount succeeds on it unless the tail is a self-loop
MountUnlessTailLoops ==
    [][SucceededOnMounted => (xipfs_mount0(nvm') = "OK" \/ TailLoops(nvm'))]_vars

\* mount returns -EIO on every NVM whose tail is a self-loop
MountRefusesTailLoop == (~halted /\ TailLoops(nvm)) => xipfs_mount0(nvm) = "-EIO"

(***************************************************************************)
(* An open that fails                                                      *)
(***************************************************************************)
\* open has returned an error
OpenFailed == last'.op = "open" /\ last'.ret # "OK" /\ ~halted'

\* C37: an open that returns an error leaves the records and the table of
\* open files as they were: no file is created, no record of an empty
\* directory is removed and no file structure is tracked.
C37_FailedOpenChangesNothing ==
    [][OpenFailed => (nvm' = nvm /\ vfs_open_files' = vfs_open_files)]_vars

\* an open that fails tracks no file structure
FailedOpenTracksNothing == [][OpenFailed => vfs_open_files' = vfs_open_files]_vars

\* an open that fails with another error than -EIO leaves the NVM as it was
FailedOpenKeepsNvmUnlessEio ==
    [][(OpenFailed /\ last'.ret # "-EIO") => nvm' = nvm]_vars

(***************************************************************************)
(* The slots of the table of open files that are dereferenced              *)
(***************************************************************************)
\* the operation that returned r dereferenced no empty slot of the table
OnlyTracked(r) == r.d.ub = "none"

\* unlink, rmdir and format, called now, dereference no empty slot
RemovalsReadOnlyTracked ==
    /\ OnlyTracked(xipfs_format0(Cur("benign")))
    /\ \A path \in {Path_a, Path_b, Path_d_f} : OnlyTracked(xipfs_unlink0(Cur("benign"), path))
    /\ \A path \in {Path_d, Path_dd} : OnlyTracked(xipfs_rmdir0(Cur("benign"), path))

\* C38: vfs_open_files_update and vfs_open_files_untrack_all dereference only
\* the slots of the table that are not empty: whatever the table holds,
\* unlink, rmdir and format read and write the private data of tracked file
\* structures only.
C38_OnlyTrackedSlotsRead == ~halted => RemovalsReadOnlyTracked

\* they do when no slot of the table is empty
OnlyTrackedSlotsReadWhenFull ==
    (~halted /\ \A i \in 1..VFS_MAX_OPEN_FILES : vfs_open_files[i] # NULL)
        => RemovalsReadOnlyTracked

\* with an empty slot in the table, format and every unlink or rmdir that
\* removes a record dereference it
EmptySlotIsRead ==
    (~halted /\ \E i \in 1..VFS_MAX_OPEN_FILES : vfs_open_files[i] = NULL)
        => /\ ~OnlyTracked(xipfs_format0(Cur("benign")))
           /\ \A path \in Paths(nvm) \cap {Path_a, Path_b, Path_d_f} :
                  ~OnlyTracked(xipfs_unlink0(Cur("benign"), path))

(***************************************************************************)
(* What a write changes                                                    *)
(***************************************************************************)
\* the NVM once the page buffer of the driver state is flushed
Flushed(D) == xipfs_buffer_flush(M(D)).nvm

\* the records of the list with their headers
Headers(mem) ==
    [i \in DOMAIN Records(mem) |->
        <<Records(mem)[i],
          SubSeq(mem[flashpage_page(Records(mem)[i])], 1, sizeof_xipfs_file_t)>>]

\* write has returned on a file structure that was tracked and opened on a
\* file of a well-formed list
Written ==
    /\ last'.op = "write" /\ ~halted'
    /\ last'.h \in TrackedNow
    /\ WellFormedList(nvm)

\* the number of bytes a write of src stores from the position of h
Stored(h, src) ==
    LET room == xipfs_file_get_max_pos(nvm, vfs_files[h].ptr) - vfs_files[h].pos
    IN  IF room <= 0 THEN 0 ELSE IF Len(src) < room THEN Len(src) ELSE room

\* the addresses of the payload of h from its position on, n of them
PayloadRange(h, n) ==
    {vfs_files[h].ptr + sizeof_xipfs_file_t + vfs_files[h].pos + k : k \in 0..(n - 1)}

\* the addresses of the mount point
MountAddrs == {flashpage_addr(page) + o : page \in MountPages, o \in 0..(FLASHPAGE_SIZE - 1)}

\* C39: a write through a tracked file structure h returns the number of
\* bytes stored, short at max_pos, and once the buffer is flushed it has
\* changed no header, of the file of h or of another record, and no
\* reserved size; called with nothing to flush, it has changed only payload
\* bytes of the file of h from pos on, as many as it returned.
C39_WriteFrame ==
    [][Written =>
          /\ last'.ret = "OK" /\ last'.n = Stored(last'.h, last'.data)
          /\ Headers(Flushed(After)) = Headers(nvm)
          /\ ~Unflushed
                 => \A addr \in MountAddrs :
                        NvmCell(Flushed(After), addr) # NvmCell(nvm, addr)
                            => addr \in PayloadRange(last'.h, last'.n)]_vars

\* it is so when the write is called with nothing to flush
WriteFrameWhenFlushed ==
    [][(Written /\ ~Unflushed) =>
          /\ last'.ret = "OK" /\ last'.n = Stored(last'.h, last'.data)
          /\ Headers(Flushed(After)) = Headers(nvm)
          /\ \A addr \in MountAddrs :
                 NvmCell(Flushed(After), addr) # NvmCell(nvm, addr)
                     => addr \in PayloadRange(last'.h, last'.n)]_vars
=============================================================================
